---------------------------- MODULE Spec2Model ----------------------------
(***************************************************************************)
(* tinyAGI: the file queue processor, the harness loop engine, the tooling *)
(* and browser executors, the run repository and the harness orchestrator. *)
(* Each subsystem has its own next-state relation over a shared state; a   *)
(* subsystem that a specification does not exercise stays in its initial   *)
(* state.                                                                  *)
(***************************************************************************)
EXTENDS Integers, Sequences, FiniteSets, TLC

VARIABLES
    \* ---- loop engine (harness/runtime/loop-engine.ts) ----
    loopPc,        \* position inside runGeneratorVerifierRevisorLoop
    loopRisk,      \* the risk argument
    iteration,     \* the for-loop variable
    verdict,       \* verdict.outcome of the last verify call
    verifyCalls,   \* number of callbacks.verify calls of this run
    reviseCalls,   \* number of callbacks.revise calls of this run
    loopResult,    \* the LoopResult returned: [loopsUsed, exhausted]
    loopEvent,     \* the task event appended on return
    \* ---- tooling executor (harness/tools/executor.ts) ----
    permissions,   \* the permissions table: permission id -> row
    uuidCount,     \* number of crypto.randomUUID() values drawn so far
    toolRegistry,  \* the tool_registry table: tool name -> status
    toolPc,        \* "idle", or "running" while a spawned child is alive
    toolCall,      \* the last call of executeToolingTask: its result, and
                   \* in argv the argument vector it handed to spawn
    \* ---- browser executor (harness/types.ts) ----
    hardStop,      \* settings.browser.hard_stop_payments
    brPc,          \* "idle", "step" (top of the step loop), "attempt"
    brRun,         \* the locals of the running executeBrowserTaskVia...
    brResult,      \* the BrowserExecutionResult of the last call
    brApprovals,   \* the browser_approvals table: request id -> row
    brTab,         \* the browser_tabs row of the recorded run
    \* ---- harness orchestrator and run repository ----
    taskRuns,      \* the task_runs table with each run's task_events
    now,           \* Date.now(), relative to the start of the process
    hPc,           \* position inside executeHarness
    hRun,          \* the locals of the running executeHarness
    hResult,       \* the HarnessExecutionResult of the last call
    lastMsg,       \* the arguments of the last supersedeNeedsInputRuns
    \* ---- file queue and queue processor (queue-processor.ts) ----
    files,         \* the message files ever written to incoming/, in mtime
                   \* order, each with the directory it is in now
    queuedFiles,   \* the set queuedFiles
    chains,        \* agentProcessingChains: chain key -> files not yet handled
    running,       \* the files whose handler awaits the agent's response
    conversations, \* the conversations map (live) and the records removed
    outgoing,      \* the envelopes written to outgoing/, delivered or not
    completed,     \* the files whose handler has returned
    throws,        \* the number of handler exceptions so far
    \* ---- proactive scheduler (harness/runtime/proactive-notifier.ts) ----
    clock,         \* nowLocalMinutes(): the local time of day in minutes
    quietHours,    \* settings.quiet_hours as minutes: [start, end]
    deferredFile,  \* the lines of proactive-deferred.jsonl
    proOutgoing,   \* the proactive envelopes written to outgoing/
    proLog,        \* the proactive messages queued so far, by id
    \* ---- memory service (harness/memory/service.ts) ----
    memoryRecords, \* the memory_records table
    lastIngest,    \* the arguments of the last ingestMemorySignals
    \* ---- durable pending-message store (channels/pending-store.ts) ----
    pendingNow,    \* Date.now() as the pending store reads it
    pendingStore,  \* the channel_pending_messages table
    pendingOp,     \* the last call on the store and what it returned
    \* ---- long responses ----
    spillNow,      \* Date.now() of the queue processor
    outbox,        \* the envelopes written to queue/outgoing, in order
    filesDir,      \* FILES_DIR: path -> the text written to it
    \* ---- settings.json (lib/config.ts) ----
    inodes,        \* the files of the settings directory: inode -> text
    dir,           \* the settings directory: path -> inode, 0 for none
    savePc,        \* writer process -> where it is in saveSettings
    readerSeen,    \* the text the last getSettings read
    \* ---- team conversation counters (queue-processor.ts) ----
    external,      \* the user's message to the team leader waits in incoming/
    teamConv,      \* the Conversation record of the team conversation
    branches,      \* agent -> its internal messages of the conversation not yet handled
    \* ---- blocked-run outreach (proactive-notifier.ts) ----
    oNow,          \* Date.now() of the scheduler and of the run repository
    elapses,       \* the times the clock was moved
    oRuns,         \* task_runs: run id -> sender, status, created_at, updated_at
    oEvents,       \* task_events: run id -> created_at of its proactive_outreach events
    \* ---- codex output parsing (lib/invoke.ts) ----
    codexOutput,   \* the lines codex wrote to its standard output
    codexResult,   \* what parseCodexResponse returned or threw
    \* ---- verifier (harness orchestrator, verifyCandidate) ----
    vfCandidate,   \* the candidate of the last verifyCandidate call
    vfReply,       \* what runOneShotPrompt gave that call
    vfCalled,      \* whether that call reached runOneShotPrompt
    \* ---- approval commands (queue-processor.ts, CLI) ----
    \* ---- approval commands (queue-processor.ts, CLI) ----
    approvalCmd,   \* the approve or deny command handled last: sender, request, decision
    \* ---- metrics (harness/repository.ts, incrementMetric) ----
    metrics,       \* harness_metrics: metric name -> metric_value
    metricEvents,  \* harness_metric_events: the rows in insertion order
    metricCalls,   \* process -> its incrementMetric call in progress
    increments     \* number of incrementMetric calls begun

loopVars == <<loopPc, loopRisk, iteration, verdict, verifyCalls, reviseCalls,
              loopResult, loopEvent>>

toolVars == <<permissions, uuidCount, toolRegistry, toolPc, toolCall>>

browserVars == <<hardStop, brPc, brRun, brResult, brApprovals, brTab>>

harnessVars == <<taskRuns, now, hPc, hRun, hResult, lastMsg>>

queueVars == <<files, queuedFiles, chains, running, conversations, outgoing,
               completed, throws>>

proactiveVars == <<clock, quietHours, deferredFile, proOutgoing, proLog>>

coreVars == <<loopVars, toolVars, browserVars, harnessVars, queueVars>>

memoryVars == <<memoryRecords, lastIngest>>

pendingVars == <<pendingNow, pendingStore, pendingOp>>

spillVars == <<spillNow, outbox, filesDir>>

settingsVars == <<inodes, dir, savePc, readerSeen>>

teamVars == <<external, teamConv, branches>>

outreachVars == <<oNow, elapses, oRuns, oEvents>>

codexVars == <<codexOutput, codexResult>>

verifierVars == <<vfCandidate, vfReply, vfCalled>>

approvalVars == <<approvalCmd>>

metricsVars == <<metrics, metricEvents, metricCalls, increments>>

serviceVars == <<proactiveVars, memoryVars, pendingVars, spillVars, settingsVars, teamVars, outreachVars, codexVars, verifierVars, approvalVars, metricsVars>>

vars == <<coreVars, serviceVars>>

notProactiveVars == <<coreVars, memoryVars, pendingVars, spillVars, settingsVars, teamVars, outreachVars, codexVars, verifierVars, approvalVars, metricsVars>>

notMemoryVars == <<coreVars, proactiveVars, pendingVars, spillVars, settingsVars, teamVars, outreachVars, codexVars, verifierVars, approvalVars, metricsVars>>

notPendingVars == <<coreVars, proactiveVars, memoryVars, spillVars, settingsVars, teamVars, outreachVars, codexVars, verifierVars, approvalVars, metricsVars>>

notSpillVars == <<coreVars, proactiveVars, memoryVars, pendingVars, settingsVars, teamVars, outreachVars, codexVars, verifierVars, approvalVars, metricsVars>>

notSettingsVars == <<coreVars, proactiveVars, memoryVars, pendingVars, spillVars, teamVars, outreachVars, codexVars, verifierVars, approvalVars, metricsVars>>

notTeamVars == <<coreVars, proactiveVars, memoryVars, pendingVars, spillVars, settingsVars, outreachVars, codexVars, verifierVars, approvalVars, metricsVars>>

notOutreachVars == <<coreVars, proactiveVars, memoryVars, pendingVars, spillVars, settingsVars, teamVars, codexVars, verifierVars, approvalVars, metricsVars>>

notCodexVars == <<coreVars, proactiveVars, memoryVars, pendingVars, spillVars, settingsVars, teamVars, outreachVars, verifierVars, approvalVars, metricsVars>>

notVerifierVars == <<coreVars, proactiveVars, memoryVars, pendingVars, spillVars, settingsVars, teamVars, outreachVars, codexVars, approvalVars, metricsVars>>

notApprovalVars == <<coreVars, proactiveVars, memoryVars, pendingVars, spillVars, settingsVars, teamVars, outreachVars, codexVars, verifierVars, metricsVars>>

notMetricsVars == <<coreVars, proactiveVars, memoryVars, pendingVars, spillVars, settingsVars, teamVars, outreachVars, codexVars, verifierVars, approvalVars>>

notLoopVars == <<toolVars, browserVars, harnessVars, queueVars, serviceVars>>

notToolVars == <<loopVars, browserVars, harnessVars, queueVars, serviceVars>>

notBrowserVars == <<loopVars, toolVars, harnessVars, queueVars, serviceVars>>

notQueueVars == <<loopVars, toolVars, browserVars, harnessVars, serviceVars>>

(***************************************************************************)
(* Loop engine                                                             *)
(***************************************************************************)
RiskLevels == {"low", "medium", "high", "critical"}

VerifierOutcomes == {"pass", "minor_fix", "critical_fail", "abstain", "error"}

NoResult == [loopsUsed |-> 0, exhausted |-> FALSE]

budgetForRisk(risk) ==
    IF risk = "critical" \/ risk = "high" THEN 5
    ELSE IF risk = "medium" THEN 3
    ELSE 1

loopBudgetForRisk(risk) ==
    IF risk = "critical" \/ risk = "high" THEN 5
    ELSE IF risk = "medium" THEN 3
    ELSE 1

isResolvable(outcome) == outcome = "minor_fix" \/ outcome = "critical_fail"

ShouldExhaustLate(outcome, iter, maxLoops) ==
    ~isResolvable(outcome) \/ iter > maxLoops

\* the second return without its test of the budget
ShouldExhaustUnresolvable(outcome, iter, maxLoops) ==
    ~isResolvable(outcome)

\* the condition of the second return inside the loop body
ShouldExhaust(outcome, iter, maxLoops) ==
    ~isResolvable(outcome) \/ iter >= maxLoops

LoopInit ==
    /\ loopPc = "idle"
    /\ loopRisk = "low"
    /\ iteration = 0
    /\ verdict = "none"
    /\ verifyCalls = 0
    /\ reviseCalls = 0
    /\ loopResult = NoResult
    /\ loopEvent = "none"

\* a call of runGeneratorVerifierRevisorLoop(runId, risk, callbacks)
LoopStart(risk) ==
    /\ loopPc \in {"idle", "returned"}
    /\ loopRisk' = risk
    /\ loopPc' = "generate"
    /\ iteration' = 0
    /\ verdict' = "none"
    /\ verifyCalls' = 0
    /\ reviseCalls' = 0
    /\ loopResult' = NoResult
    /\ loopEvent' = "none"

LoopCall == \E risk \in RiskLevels : LoopStart(risk) /\ UNCHANGED notLoopVars

\* callbacks.generate()
LoopGenerate ==
    /\ loopPc = "generate"
    /\ loopPc' = "verify"
    /\ UNCHANGED <<loopRisk, iteration, verdict, verifyCalls, reviseCalls,
                   loopResult, loopEvent>>
    /\ UNCHANGED notLoopVars

\* callbacks.verify(...): the first call enters the for loop at iteration 1,
\* a later one ends the loop body and increments the loop variable
LoopVerify ==
    /\ loopPc = "verify"
    /\ \E outcome \in VerifierOutcomes : verdict' = outcome
    /\ verifyCalls' = verifyCalls + 1
    /\ iteration' = iteration + 1
    /\ loopPc' = "test"
    /\ UNCHANGED <<loopRisk, reviseCalls, loopResult, loopEvent>>
    /\ UNCHANGED notLoopVars

\* the loop test and the two returns of the loop body
LoopTest ==
    /\ loopPc = "test"
    /\ LET maxLoops == budgetForRisk(loopRisk) IN
       IF ~(iteration <= maxLoops)
       THEN /\ loopResult' = [loopsUsed |-> maxLoops, exhausted |-> TRUE]
            /\ loopPc' = "returned"
            /\ UNCHANGED loopEvent
       ELSE IF verdict = "pass" \/ verdict = "abstain"
       THEN /\ loopResult' = [loopsUsed |-> iteration, exhausted |-> FALSE]
            /\ loopEvent' = "loop_completed"
            /\ loopPc' = "returned"
       ELSE IF ShouldExhaust(verdict, iteration, maxLoops)
       THEN /\ loopResult' = [loopsUsed |-> iteration, exhausted |-> TRUE]
            /\ loopEvent' = "loop_exhausted"
            /\ loopPc' = "returned"
       ELSE /\ loopPc' = "revise"
            /\ UNCHANGED <<loopResult, loopEvent>>
    /\ UNCHANGED <<loopRisk, iteration, verdict, verifyCalls, reviseCalls>>
    /\ UNCHANGED notLoopVars

\* callbacks.revise(generated.output, verdict, iteration + 1)
LoopRevise ==
    /\ loopPc = "revise"
    /\ reviseCalls' = reviseCalls + 1
    /\ loopPc' = "verify"
    /\ UNCHANGED <<loopRisk, iteration, verdict, verifyCalls, loopResult,
                   loopEvent>>
    /\ UNCHANGED notLoopVars

NextLoop ==
    \/ LoopCall
    \/ LoopGenerate
    \/ LoopVerify
    \/ LoopTest
    \/ LoopRevise

(***************************************************************************)
(* Strings are sequences of one-character strings, so that the executor's  *)
(* regular expressions and its tokenizer are computed character by         *)
(* character.                                                              *)
(***************************************************************************)
Whitespace == {" ", "\n", "\t"}

DigitChars == {"0", "1", "2", "3", "4", "5", "6", "7", "8", "9"}

UpperLetters ==
    <<"A", "B", "C", "D", "E", "F", "G", "H", "I", "J", "K", "L", "M",
      "N", "O", "P", "Q", "R", "S", "T", "U", "V", "W", "X", "Y", "Z">>

LowerLetters ==
    <<"a", "b", "c", "d", "e", "f", "g", "h", "i", "j", "k", "l", "m",
      "n", "o", "p", "q", "r", "s", "t", "u", "v", "w", "x", "y", "z">>

\* \w of a regular expression
WordChars ==
    {UpperLetters[i] : i \in DOMAIN UpperLetters}
        \cup {LowerLetters[i] : i \in DOMAIN LowerLetters}
        \cup DigitChars \cup {"_"}

toLowerChar(c) ==
    IF \E i \in DOMAIN UpperLetters : UpperLetters[i] = c
    THEN LowerLetters[CHOOSE i \in DOMAIN UpperLetters : UpperLetters[i] = c]
    ELSE c

\* String.prototype.toLowerCase
toLowerCase(s) == [i \in 1..Len(s) |-> toLowerChar(s[i])]

\* the text p occurs in s at position i
MatchAt(s, i, p) ==
    /\ i >= 1
    /\ i + Len(p) - 1 <= Len(s)
    /\ SubSeq(s, i, i + Len(p) - 1) = p

\* String.prototype.startsWith
startsWith(s, p) == MatchAt(s, 1, p)

\* \b of a regular expression, between positions i - 1 and i of s
WordBoundary(s, i) ==
    LET before == i - 1 >= 1 /\ i - 1 <= Len(s) /\ s[i - 1] \in WordChars
        after  == i >= 1 /\ i <= Len(s) /\ s[i] \in WordChars
    IN  before # after

\* the first position at or after i of s that holds no whitespace
\* (Len(s) + 1 when there is none)
SkipSpace(s, i) ==
    IF \E j \in i..Len(s) : s[j] \notin Whitespace
    THEN CHOOSE j \in i..Len(s) :
            /\ s[j] \notin Whitespace
            /\ \A k \in i..(j - 1) : s[k] \in Whitespace
    ELSE Len(s) + 1

\* the first position at or after i of s that holds whitespace
\* (Len(s) + 1 when there is none)
SkipWord(s, i) ==
    IF \E j \in i..Len(s) : s[j] \in Whitespace
    THEN CHOOSE j \in i..Len(s) :
            /\ s[j] \in Whitespace
            /\ \A k \in i..(j - 1) : s[k] \notin Whitespace
    ELSE Len(s) + 1

\* String.prototype.trim
trim(s) ==
    LET first == SkipSpace(s, 1) IN
    IF first > Len(s) THEN <<>>
    ELSE LET last == CHOOSE j \in first..Len(s) :
                        /\ s[j] \notin Whitespace
                        /\ \A k \in (j + 1)..Len(s) : s[k] \in Whitespace
         IN  SubSeq(s, first, last)

RECURSIVE splitLines(_)
\* blob.split('\n')
splitLines(s) ==
    IF \E i \in 1..Len(s) : s[i] = "\n"
    THEN LET i == CHOOSE j \in 1..Len(s) :
                    s[j] = "\n" /\ \A k \in 1..(j - 1) : s[k] # "\n"
         IN  <<SubSeq(s, 1, i - 1)>> \o splitLines(SubSeq(s, i + 1, Len(s)))
    ELSE <<s>>

\* line.replace(/^[-*]\s+/, '').replace(/^\d+[.)]\s+/, '').trim()
stripLinePrefix(line) ==
    LET bullet ==
            IF Len(line) >= 2 /\ line[1] \in {"-", "*"} /\ line[2] \in Whitespace
            THEN SubSeq(line, SkipSpace(line, 2), Len(line))
            ELSE line
        d == IF \E j \in 1..Len(bullet) : bullet[j] \notin DigitChars
             THEN CHOOSE j \in 1..Len(bullet) :
                     /\ bullet[j] \notin DigitChars
                     /\ \A k \in 1..(j - 1) : bullet[k] \in DigitChars
             ELSE Len(bullet) + 1
        numbered ==
            IF /\ d >= 2
               /\ d + 1 <= Len(bullet)
               /\ bullet[d] \in {".", ")"}
               /\ bullet[d + 1] \in Whitespace
            THEN SubSeq(bullet, SkipSpace(bullet, d + 1), Len(bullet))
            ELSE bullet
    IN  trim(numbered)

RECURSIVE tokensFrom(_, _)
\* the matches of /"([^"]*)"|'([^']*)'|(\S+)/g in command from position p on
tokensFrom(command, p) ==
    IF p > Len(command) THEN <<>>
    ELSE IF command[p] \in Whitespace THEN tokensFrom(command, p + 1)
    ELSE IF /\ command[p] \in {"\"", "'"}
            /\ \E q \in (p + 1)..Len(command) : command[q] = command[p]
    THEN LET q == CHOOSE j \in (p + 1)..Len(command) :
                    /\ command[j] = command[p]
                    /\ \A k \in (p + 1)..(j - 1) : command[k] # command[p]
         IN  <<SubSeq(command, p + 1, q - 1)>> \o tokensFrom(command, q + 1)
    ELSE LET e == SkipWord(command, p)
         IN  <<SubSeq(command, p, e - 1)>> \o tokensFrom(command, e)

\* tokens.filter(Boolean)
tokenizeCommand(command) == SelectSeq(tokensFrom(command, 1), LAMBDA t : t # <<>>)

(***************************************************************************)
(* Tooling executor (harness/tools/executor.ts)                            *)
(***************************************************************************)
ALLOWED_TOOLS ==
    << <<"n", "p", "m">>, <<"n", "p", "x">>, <<"p", "i", "p">>,
       <<"p", "i", "p", "3">>, <<"b", "r", "e", "w">>, <<"g", "i", "t">>,
       <<"d", "o", "c", "k", "e", "r">>, <<"p", "n", "p", "m">>,
       <<"y", "a", "r", "n">> >>

AllowedToolSet == {ALLOWED_TOOLS[i] : i \in DOMAIN ALLOWED_TOOLS}

\* /\b(tool)\s+[^\n]+/i matches blob from position i on
FallbackMatchAt(blob, i, tool) ==
    /\ MatchAt(toLowerCase(blob), i, tool)
    /\ WordBoundary(blob, i)
    /\ i + Len(tool) <= Len(blob)
    /\ blob[i + Len(tool)] \in Whitespace
    /\ \E j \in (i + Len(tool) + 1)..Len(blob) :
          /\ blob[j] # "\n"
          /\ \A k \in (i + Len(tool))..(j - 1) : blob[k] \in Whitespace

\* match[0] of that match: \s+ takes the longest run of whitespace that
\* leaves a character other than a newline to follow, and [^\n]+ runs from
\* there to the end of its line
FallbackMatchText(blob, i, tool) ==
    LET run  == SkipSpace(blob, i + Len(tool))
        from == IF run <= Len(blob) THEN run
                ELSE CHOOSE j \in (i + Len(tool) + 1)..Len(blob) :
                        /\ blob[j] # "\n"
                        /\ \A k \in (j + 1)..Len(blob) : blob[k] = "\n"
        stop == IF \E j \in from..Len(blob) : blob[j] = "\n"
                THEN CHOOSE j \in from..Len(blob) :
                        /\ blob[j] = "\n"
                        /\ \A k \in from..(j - 1) : blob[k] # "\n"
                ELSE Len(blob) + 1
    IN  SubSeq(blob, i, stop - 1)

\* the first loop of extractCommandCandidate: is this line a command of tool
LineNamesTool(line, tool) ==
    \/ startsWith(toLowerCase(line), tool \o <<" ">>)
    \/ toLowerCase(line) = tool

extractCommandCandidate(blob) ==
    LET lines == SelectSeq([i \in DOMAIN splitLines(blob) |->
                               stripLinePrefix(splitLines(blob)[i])],
                           LAMBDA l : l # <<>>)
        named(l) == \E t \in DOMAIN ALLOWED_TOOLS : LineNamesTool(lines[l], ALLOWED_TOOLS[t])
        hit(t) == \E i \in 1..Len(blob) : FallbackMatchAt(blob, i, ALLOWED_TOOLS[t])
    IN  IF \E l \in DOMAIN lines : named(l)
        THEN lines[CHOOSE l \in DOMAIN lines :
                      named(l) /\ \A m \in 1..(l - 1) : ~named(m)]
        ELSE IF \E t \in DOMAIN ALLOWED_TOOLS : hit(t)
        THEN LET t == CHOOSE u \in DOMAIN ALLOWED_TOOLS :
                         hit(u) /\ \A v \in 1..(u - 1) : ~hit(v)
                 i == CHOOSE j \in 1..Len(blob) :
                         /\ FallbackMatchAt(blob, j, ALLOWED_TOOLS[t])
                         /\ \A k \in 1..(j - 1) :
                               ~FallbackMatchAt(blob, k, ALLOWED_TOOLS[t])
             IN  trim(FallbackMatchText(blob, i, ALLOWED_TOOLS[t]))
        ELSE <<>>

\* the grave accent character, which the module's lexer does not accept
\* inside a string
BackTick == "<grave>"

\* the test of command against the class of ; & | and the grave accent
HasChaining(command) ==
    \E i \in 1..Len(command) : command[i] \in {";", "&", "|", BackTick}

\* /\bsudo\b/i.test(command)
HasSudo(command) ==
    \E i \in 1..Len(command) :
        /\ MatchAt(toLowerCase(command), i, <<"s", "u", "d", "o">>)
        /\ WordBoundary(command, i)
        /\ WordBoundary(command, i + 4)

\* /\brm\s+-rf\b/i.test(command)
HasRmRf(command) ==
    \E i \in 1..Len(command) :
        /\ MatchAt(toLowerCase(command), i, <<"r", "m">>)
        /\ WordBoundary(command, i)
        /\ i + 2 <= Len(command)
        /\ command[i + 2] \in Whitespace
        /\ LET j == SkipSpace(command, i + 2) IN
              /\ MatchAt(toLowerCase(command), j, <<"-", "r", "f">>)
              /\ WordBoundary(command, j + 3)

\* the tool name sanitizeCommand tests against the allowlist
SanitizedTool(tokens) == toLowerCase(tokens[1])

\* sanitizeCommand(command).ok
sanitizeCommand(command) ==
    /\ trim(command) # <<>>
    /\ ~HasChaining(command)
    /\ ~HasSudo(command)
    /\ ~HasRmRf(command)
    /\ tokenizeCommand(command) # <<>>
    /\ SanitizedTool(tokenizeCommand(command)) \in AllowedToolSet

Users == {"u1", "u2"}

\* the number of UUIDs the model draws
MaxUuid == 2

\* texts handed to executeToolingTask (objective and candidate output joined)
Blob ==
    [NpmVersion |-> <<"n", "p", "m", " ", "-", "v">>,
     UpperNpm |-> <<"N", "P", "M", " ", "-", "v">>,
     Sudo |-> <<"S", "u", "d", "o", " ", "g", "i", "t", " ", "x">>,
     Chain |-> <<"g", "i", "t", " ", "x", ";", "i", "d">>,
     RmRf |-> <<"g", "i", "t", " ", "x", " ", "r", "m", " ", " ", "-", "r", "f">>,
     Curl |-> <<"c", "u", "r", "l", " ", "x">>,
     Listed |-> <<"d", "o", ":", "\n", "1", ")", " ", "g", "i", "t", " ", "'", "a", " ", "b", "'">>,
     Prose |-> <<"r", "u", "n", " ", "P", "i", "p", " ", "i", " ", "x", "|", "s", "h">>]

Blobs ==
    {Blob.NpmVersion, Blob.UpperNpm, Blob.Sudo, Blob.Chain, Blob.RmRf, Blob.Curl,
     Blob.Listed, Blob.Prose, <<>>}

\* the executor's pure functions on the texts of the model, computed once
CommandOf == [blob \in Blobs |-> extractCommandCandidate(blob)]

TokensOf == [blob \in Blobs |-> tokenizeCommand(CommandOf[blob])]

SanitizeOk == [blob \in Blobs |-> sanitizeCommand(CommandOf[blob])]

ToolNameOf ==
    [blob \in Blobs |-> IF TokensOf[blob] = <<>> THEN <<>> ELSE SanitizedTool(TokensOf[blob])]

NoCall ==
    [userId |-> "none", command |-> <<>>, status |-> "none", requestId |-> 0,
     argv |-> <<>>, code |-> 0]

ToolInit ==
    /\ permissions = <<>>
    /\ uuidCount = 0
    /\ toolRegistry = <<>>
    /\ toolPc = "idle"
    /\ toolCall = NoCall

\* counts rows of any status
hasAnyPermission(userId, subject, action) ==
    \E id \in DOMAIN permissions :
        /\ permissions[id].user_id = userId
        /\ permissions[id].subject = subject
        /\ permissions[id].action = action

hasActivePermission(userId, subject, action) ==
    \E id \in DOMAIN permissions :
        /\ permissions[id].user_id = userId
        /\ permissions[id].subject = subject
        /\ permissions[id].action = action
        /\ permissions[id].status = "active"

\* the table after upsertPermission: a new row, or on conflict the old row
\* with its status and resource replaced
upsertPermission(table, id, userId, subject, action, resource, status) ==
    IF id \in DOMAIN table
    THEN [table EXCEPT ![id].status = status, ![id].resource = resource]
    ELSE [i \in DOMAIN table \cup {id} |->
            IF i = id
            THEN [user_id |-> userId, subject |-> subject, action |-> action,
                  resource |-> resource, status |-> status]
            ELSE table[i]]

\* the registry after upsertTool
upsertTool(registry, name, status) ==
    [n \in DOMAIN registry \cup {name} |-> IF n = name THEN status ELSE registry[n]]

\* executeToolingTask up to its first await: the decision, and the spawn
ToolingCall(userId, blob) ==
    /\ toolPc = "idle"
    /\ LET command  == CommandOf[blob]
           tokens   == TokensOf[blob]
           toolName == ToolNameOf[blob]
           known    == IF toolName \in DOMAIN toolRegistry THEN toolRegistry
                       ELSE upsertTool(toolRegistry, toolName, "pending")
           requestId == uuidCount + 1
       IN  IF ~SanitizeOk[blob]
           THEN /\ toolCall' = [NoCall EXCEPT !.userId = userId, !.command = command,
                                             !.status = "needs_input"]
                /\ UNCHANGED <<permissions, uuidCount, toolRegistry, toolPc>>
           ELSE IF ~hasActivePermission(userId, toolName, "execute")
           THEN /\ uuidCount < MaxUuid
                /\ uuidCount' = requestId
                /\ permissions' = upsertPermission(permissions, requestId, userId,
                                                   toolName, "execute", "tool", "pending")
                /\ toolRegistry' = known
                /\ toolCall' = [NoCall EXCEPT !.userId = userId, !.command = command,
                                             !.status = "needs_approval",
                                             !.requestId = requestId]
                /\ UNCHANGED toolPc
           ELSE /\ toolRegistry' = upsertTool(known, toolName, "approved")
                /\ toolPc' = "running"
                /\ toolCall' = [NoCall EXCEPT !.userId = userId, !.command = command,
                                             !.status = "running", !.argv = tokens]
                /\ UNCHANGED <<permissions, uuidCount>>

ExecuteToolingTask(userId, blob) ==
    ToolingCall(userId, blob) /\ UNCHANGED notToolVars

\* the child's close or error event: the rest of executeToolingTask
ToolChildClose(code) ==
    /\ toolPc = "running"
    /\ toolPc' = "idle"
    /\ toolCall' = [toolCall EXCEPT !.code = code,
                       !.status = IF code # 0 THEN "failed" ELSE "completed"]
    /\ UNCHANGED <<permissions, uuidCount, toolRegistry>>
    /\ UNCHANGED notToolVars

\* the channel client's /approve <request_id> and /deny <request_id>
ResolvePermissionRequest(senderId, requestId, approve) ==
    /\ requestId \in DOMAIN permissions
    /\ permissions[requestId].user_id = senderId
    /\ permissions[requestId].status = "pending"
    /\ permissions' = upsertPermission(permissions, requestId,
                         permissions[requestId].user_id,
                         permissions[requestId].subject,
                         permissions[requestId].action,
                         permissions[requestId].resource,
                         IF approve THEN "active" ELSE "revoked")
    /\ UNCHANGED <<uuidCount, toolRegistry, toolPc, toolCall>>
    /\ UNCHANGED notToolVars

\* tinyagi permission grant <user_id> <subject> execute
PermissionGrant(userId, subject) ==
    /\ uuidCount < MaxUuid
    /\ uuidCount' = uuidCount + 1
    /\ permissions' = upsertPermission(permissions, uuidCount + 1, userId, subject,
                                       "execute", "manual", "active")
    /\ UNCHANGED <<toolRegistry, toolPc, toolCall>>
    /\ UNCHANGED notToolVars

\* tinyagi permission revoke <permission_id>
PermissionRevoke(permissionId) ==
    /\ permissionId \in DOMAIN permissions
    /\ permissions' = upsertPermission(permissions, permissionId,
                         permissions[permissionId].user_id,
                         permissions[permissionId].subject,
                         permissions[permissionId].action,
                         permissions[permissionId].resource, "revoked")
    /\ UNCHANGED <<uuidCount, toolRegistry, toolPc, toolCall>>
    /\ UNCHANGED notToolVars

NextTool ==
    \/ \E userId \in Users, blob \in Blobs : ExecuteToolingTask(userId, blob)
    \/ \E code \in {0, 1} : ToolChildClose(code)
    \/ \E senderId \in Users, requestId \in 1..MaxUuid, approve \in BOOLEAN :
          ResolvePermissionRequest(senderId, requestId, approve)
    \/ \E userId \in Users : PermissionGrant(userId, <<"n", "p", "m">>)
    \/ \E permissionId \in 1..MaxUuid : PermissionRevoke(permissionId)

\* tinyagi tools approve <name> <user_id>
ApproveTool(name, userId) ==
    /\ uuidCount < MaxUuid
    /\ uuidCount' = uuidCount + 1
    /\ toolRegistry' = upsertTool(toolRegistry, name, "approved")
    /\ permissions' = upsertPermission(permissions, uuidCount + 1, userId, name,
                                       "execute", "tool", "active")
    /\ UNCHANGED <<toolPc, toolCall>>
    /\ UNCHANGED notToolVars

\* tinyagi tools block <name> <user_id>: the registry row becomes blocked
\* and a new permission row, of a fresh id, is written as revoked
BlockTool(name, userId) ==
    /\ uuidCount < MaxUuid
    /\ uuidCount' = uuidCount + 1
    /\ toolRegistry' = upsertTool(toolRegistry, name, "blocked")
    /\ permissions' = upsertPermission(permissions, uuidCount + 1, userId, name,
                                       "execute", "tool", "revoked")
    /\ UNCHANGED <<toolPc, toolCall>>
    /\ UNCHANGED notToolVars

\* the executor together with the registry commands of the CLI
NextRegistry ==
    \/ NextTool
    \/ \E userId \in Users : ApproveTool(<<"n", "p", "m">>, userId)
    \/ \E userId \in Users : BlockTool(<<"n", "p", "m">>, userId)

(***************************************************************************)
(* Browser executor (harness/types.ts)                                     *)
(***************************************************************************)
MAX_RETRIES == 3

\* the number of approval requests the model creates
MaxApprovals == 1

Url ==
    [Blank |-> <<"a", "b", "o", "u", "t", ":", "b", "l", "a", "n", "k">>,
     Shop |-> <<"h", "t", "t", "p", ":", "/", "/", "a", ".", "b">>,
     Cvv |-> <<"h", "t", "t", "p", ":", "/", "/", "a", ".", "b", "/", "c", "v", "v">>]

\* steps as parseBrowserPlan produces them
StepNavigate(url) ==
    [type |-> "navigate", selector |-> <<>>, value |-> <<>>, url |-> url]

StepClick(selector) ==
    [type |-> "click", selector |-> selector, value |-> <<>>, url |-> <<>>]

StepType(value, selector) ==
    [type |-> "type", selector |-> selector, value |-> value, url |-> <<>>]

\* the plans the model executes: without a payment step, with a click on
\* "text=Pay", with a payment url, with "now" typed into "buy" before a
\* harmless click, and the empty plan
BrowserPlans ==
    {<<StepNavigate(Url.Shop), StepClick(<<"#", "o", "k">>)>>,
     <<StepNavigate(Url.Shop), StepClick(<<"t", "e", "x", "t", "=", "P", "a", "y">>)>>,
     <<StepNavigate(Url.Cvv)>>,
     <<StepType(<<"n", "o", "w">>, <<"b", "u", "y">>), StepClick(<<"#", "o", "k">>)>>,
     <<>>}

\* the alternatives of the payment regular expression
PaymentWords ==
    {<<"p", "a", "y">>,
     <<"p", "a", "y", "m", "e", "n", "t">>,
     <<"c", "h", "e", "c", "k", "o", "u", "t">>,
     <<"p", "u", "r", "c", "h", "a", "s", "e">>,
     <<"b", "u", "y", " ", "n", "o", "w">>,
     <<"c", "o", "n", "f", "i", "r", "m", " ", "o", "r", "d", "e", "r">>,
     <<"w", "a", "l", "l", "e", "t">>,
     <<"t", "r", "a", "n", "s", "f", "e", "r">>,
     <<"c", "a", "r", "d", " ", "n", "u", "m", "b", "e", "r">>,
     <<"c", "v", "v">>}

\* the regular expression finds one of its alternatives somewhere in blob
MatchesPaymentWord(blob) ==
    \E w \in PaymentWords : \E i \in 1..Len(blob) : MatchAt(blob, i, w)

isPaymentStep(step) ==
    MatchesPaymentWord(
        toLowerCase(step.selector \o <<" ">> \o step.value \o <<" ">> \o step.url))

NoTab == [status |-> "none", url |-> <<>>, trace |-> <<>>]

NoRun ==
    [mode |-> "none", path |-> "none", userId |-> "none", hardStop |-> TRUE,
     plan |-> <<>>, i |-> 0, attempt |-> 0, executed |-> {}, trace |-> <<>>,
     pageUrl |-> <<>>]

NoBrowserResult == [status |-> "none", requestId |-> 0]

BrowserInit ==
    /\ hardStop = TRUE
    /\ brPc = "idle"
    /\ brRun = NoRun
    /\ brResult = NoBrowserResult
    /\ brApprovals = <<>>
    /\ brTab = NoTab

\* the replayable steps of a trace: the first successful or checkpoint entry
\* of each action, with the page url of the entry, minus incomplete steps
RECURSIVE replaySteps(_, _)
replaySteps(trace, seenActions) ==
    IF trace = <<>> THEN <<>>
    ELSE LET entry == Head(trace)
             step  == [type |-> entry.stepType, selector |-> entry.selector,
                       value |-> entry.value, url |-> entry.url]
             selectorTypes == {"click", "type", "fill", "wait_for", "extract_text"}
         IN  IF entry.actionId \in seenActions
                \/ entry.outcome \notin {"success", "checkpoint"}
             THEN replaySteps(Tail(trace), seenActions)
             ELSE IF \/ step.type = "navigate" /\ step.url = <<>>
                     \/ step.type \in selectorTypes /\ step.selector = <<>>
                     \/ step.type = "press" /\ step.value = <<>>
             THEN replaySteps(Tail(trace), seenActions \cup {entry.actionId})
             ELSE <<step>> \o replaySteps(Tail(trace), seenActions \cup {entry.actionId})

\* buildReplayPlan(runId).actions; the empty plan stands for null
buildReplayPlan(tab) ==
    IF tab.status = "none" \/ tab.trace = <<>> THEN <<>>
    ELSE LET baseUrl == IF tab.url # <<>> THEN tab.url ELSE tab.trace[1].url
             first   == IF baseUrl # <<>>
                        THEN <<[type |-> "navigate", selector |-> <<>>,
                                value |-> <<>>, url |-> baseUrl]>>
                        ELSE <<>>
         IN  first \o replaySteps(tab.trace, {})

\* executeBrowserTaskWithPlan: the choice of the execution path
BrowserPath(provider, session) ==
    IF provider = "chrome-devtools-mcp" THEN "mcp"
    ELSE IF session = "ok" THEN "cdp"
    ELSE IF provider = "auto" /\ session = "fallback" THEN "mcp"
    ELSE "none"

\* a call with a plan: from executeBrowserTask (mode task) or from
\* replayBrowserRun (mode replay)
BrowserPlanCall(mode, userId, plan, provider, session) ==
    /\ brPc = "idle"
    /\ Len(brApprovals) < MaxApprovals
    /\ IF plan = <<>> 
       THEN /\ brResult' = [status |-> "needs_input", requestId |-> 0]
            /\ UNCHANGED <<brPc, brRun, brTab>>
       ELSE IF BrowserPath(provider, session) = "none"
       THEN /\ brResult' = [status |-> "failed", requestId |-> 0]
            /\ UNCHANGED <<brPc, brRun, brTab>>
       ELSE /\ brPc' = "step"
            /\ brRun' = [NoRun EXCEPT !.mode = mode, !.userId = userId,
                                     !.path = BrowserPath(provider, session),
                                     !.hardStop = hardStop, !.plan = plan,
                                     !.i = 1, !.pageUrl = Url.Blank]
            /\ brResult' = [status |-> "running", requestId |-> 0]
            /\ brTab' = IF mode = "task"
                        THEN [status |-> "active", url |-> Url.Blank, trace |-> <<>>]
                        ELSE brTab
    /\ UNCHANGED <<hardStop, brApprovals>>

StartBrowserPlan(mode, userId, plan, provider, session) ==
    BrowserPlanCall(mode, userId, plan, provider, session) /\ UNCHANGED notBrowserVars

ExecuteBrowserTask(userId, plan, provider, session) ==
    StartBrowserPlan("task", userId, plan, provider, session)

ReplayBrowserRun(userId, provider, session) ==
    StartBrowserPlan("replay", userId, buildReplayPlan(brTab), provider, session)

\* gates the CDP path only
requiresApprovalOnCdp(run, step) ==
    run.path = "cdp" /\ run.hardStop /\ isPaymentStep(step)

\* settings.browser.hard_stop_payments && isPaymentStep(step), on either path
requiresApproval(run, step) == run.hardStop /\ isPaymentStep(step)

\* upsertBrowserTab for the recorded run (a replay writes the row of its
\* own run id, which no replay reads)
TabAfter(status, url, trace) ==
    IF brRun.mode = "task"
    THEN [status |-> status, url |-> url, trace |-> trace]
    ELSE brTab

TraceEntry(step, outcome) ==
    [actionId |-> brRun.i, stepType |-> step.type, selector |-> step.selector,
     value |-> step.value, attempt |-> brRun.attempt, outcome |-> outcome]

\* the top of the step loop: the end of the plan, the approval gate, or the
\* entry into the retry loop
BrowserStepGate ==
    /\ brPc = "step"
    /\ IF brRun.i > Len(brRun.plan)
       THEN /\ brTab' = TabAfter("released", brRun.pageUrl, brRun.trace)
            /\ brResult' = [status |-> "completed", requestId |-> 0]
            /\ brPc' = "idle"
            /\ brRun' = NoRun
            /\ UNCHANGED brApprovals
       ELSE LET step == brRun.plan[brRun.i]
                requestId == Len(brApprovals) + 1
            IN  IF requiresApproval(brRun, step)
                THEN /\ brApprovals' = Append(brApprovals,
                            [user_id |-> brRun.userId, status |-> "pending"])
                     /\ brTab' = TabAfter("active", brRun.pageUrl, brRun.trace)
                     /\ brResult' = [status |-> "needs_approval",
                                     requestId |-> requestId]
                     /\ brPc' = "idle"
                     /\ UNCHANGED brRun
                ELSE /\ brPc' = "attempt"
                     /\ brRun' = [brRun EXCEPT !.attempt = 1]
                     /\ UNCHANGED <<brResult, brApprovals, brTab>>
    /\ UNCHANGED hardStop
    /\ UNCHANGED notBrowserVars

\* one attempt of the retry loop: runStep and what follows it
BrowserAttempt(outcome, landed) ==
    /\ brPc = "attempt"
    /\ LET step == brRun.plan[brRun.i]
           url  == IF step.type = "navigate" /\ outcome # "failure"
                   THEN landed ELSE brRun.pageUrl
           entry == TraceEntry(step, outcome) @@ [url |-> url]
           trace == Append(brRun.trace, entry)
           ran   == [brRun EXCEPT !.executed = @ \cup {step}, !.trace = trace,
                                  !.pageUrl = url]
       IN  /\ landed \in {step.url, Url.Cvv}
           /\ IF outcome = "success"
              THEN /\ brRun' = [ran EXCEPT !.i = @ + 1]
                   /\ brTab' = TabAfter("active", url, trace)
                   /\ brPc' = "step"
                   /\ UNCHANGED brResult
              ELSE IF outcome = "checkpoint"
              THEN /\ brRun' = NoRun
                   /\ brTab' = TabAfter("error", url, trace)
                   /\ brResult' = [status |-> "needs_input", requestId |-> 0]
                   /\ brPc' = "idle"
              ELSE IF brRun.attempt < MAX_RETRIES
              THEN /\ brRun' = [ran EXCEPT !.attempt = @ + 1]
                   /\ UNCHANGED <<brTab, brResult, brPc>>
              ELSE /\ brRun' = NoRun
                   /\ brTab' = TabAfter("error", url, trace)
                   /\ brResult' = [status |-> "failed", requestId |-> 0]
                   /\ brPc' = "idle"
    /\ UNCHANGED <<hardStop, brApprovals>>
    /\ UNCHANGED notBrowserVars

\* the executor's outer catch: an exception outside the retry loop
BrowserException ==
    /\ brPc \in {"step", "attempt"}
    /\ brTab' = TabAfter("error", <<>>, brRun.trace)
    /\ brResult' = [status |-> "failed", requestId |-> 0]
    /\ brPc' = "idle"
    /\ brRun' = NoRun
    /\ UNCHANGED <<hardStop, brApprovals>>
    /\ UNCHANGED notBrowserVars

\* resolveBrowserApproval(requestId, approve) from /approve and /deny
ResolveBrowserApproval(requestId, approve) ==
    /\ requestId \in DOMAIN brApprovals
    /\ brApprovals' = [brApprovals EXCEPT ![requestId].status =
                          IF approve THEN "approved" ELSE "denied"]
    /\ UNCHANGED <<hardStop, brPc, brRun, brResult, brTab>>
    /\ UNCHANGED notBrowserVars

\* an edit of settings.json: browser.hard_stop_payments.  A running call
\* has read its settings already, so an edit during a call acts like one
\* made right after it.
SetHardStop(value) ==
    /\ brPc = "idle"
    /\ hardStop' = value
    /\ UNCHANGED <<brPc, brRun, brResult, brApprovals, brTab>>
    /\ UNCHANGED notBrowserVars

BrowserProviders == {"auto", "cdp", "chrome-devtools-mcp"}

NextBrowser ==
    \/ \E plan \in BrowserPlans, provider \in BrowserProviders,
          session \in {"ok", "fallback", "down"} :
          ExecuteBrowserTask("u1", plan, provider, session)
    \/ \E provider \in BrowserProviders, session \in {"ok", "fallback", "down"} :
          ReplayBrowserRun("u1", provider, session)
    \/ BrowserStepGate
    \/ \E outcome \in {"success", "checkpoint", "failure"}, landed \in {Url.Shop, Url.Cvv} :
          BrowserAttempt(outcome, landed)
    \/ BrowserException
    \/ \E requestId \in 1..MaxApprovals, approve \in BOOLEAN :
          ResolveBrowserApproval(requestId, approve)
    \/ \E value \in BOOLEAN : SetHardStop(value)

\* page.close() ran in the checkpoint branch of the run
PageClosed ==
    \E j \in DOMAIN brRun.trace : brRun.trace[j].outcome = "checkpoint"

\* the step loop of a page that is open, and its end on the MCP path, where
\* the return of completed follows the released row at once
BrowserStepGateOpen ==
    /\ BrowserStepGate
    /\ ~(brRun.path = "cdp" /\ brRun.i > Len(brRun.plan))

\* an attempt on a page that was closed throws
BrowserAttemptOpen(outcome, landed) ==
    /\ BrowserAttempt(outcome, landed)
    /\ PageClosed => outcome = "failure"

\* the CDP path after the last step: the released row is written
BrowserRelease ==
    /\ brPc = "step"
    /\ brRun.path = "cdp"
    /\ brRun.i > Len(brRun.plan)
    /\ brTab' = TabAfter("released", brRun.pageUrl, brRun.trace)
    /\ brPc' = "closing"
    /\ UNCHANGED <<hardStop, brRun, brResult, brApprovals>>
    /\ UNCHANGED notBrowserVars

\* ... and await browser.close() returns, or throws into the outer catch
BrowserClose(thrown) ==
    /\ brPc = "closing"
    /\ IF thrown
       THEN /\ brTab' = TabAfter("error", <<>>, brRun.trace)
            /\ brResult' = [status |-> "failed", requestId |-> 0]
       ELSE /\ brResult' = [status |-> "completed", requestId |-> 0]
            /\ UNCHANGED brTab
    /\ brPc' = "idle"
    /\ brRun' = NoRun
    /\ UNCHANGED <<hardStop, brApprovals>>
    /\ UNCHANGED notBrowserVars

\* an attempt of the CDP path that detects a checkpoint: the trace entry and
\* the error row are written, then await browser.close() throws inside the
\* try, and the catch of the retry loop records a failure of the attempt
BrowserCheckpointCloseThrows(landed) ==
    /\ brPc = "attempt"
    /\ brRun.path = "cdp"
    /\ ~PageClosed
    /\ LET step == brRun.plan[brRun.i]
           url  == IF step.type = "navigate" THEN landed ELSE brRun.pageUrl
           seen == Append(brRun.trace, TraceEntry(step, "checkpoint") @@ [url |-> url])
           trace == Append(seen, TraceEntry(step, "failure") @@ [url |-> url])
           ran  == [brRun EXCEPT !.executed = @ \cup {step}, !.trace = trace,
                                 !.pageUrl = url]
       IN  /\ landed \in {step.url, Url.Cvv}
           /\ brTab' = TabAfter("error", url, seen)
           /\ IF brRun.attempt < MAX_RETRIES
              THEN /\ brRun' = [ran EXCEPT !.attempt = @ + 1]
                   /\ UNCHANGED <<brResult, brPc>>
              ELSE /\ brRun' = NoRun
                   /\ brResult' = [status |-> "failed", requestId |-> 0]
                   /\ brPc' = "idle"
    /\ UNCHANGED <<hardStop, brApprovals>>
    /\ UNCHANGED notBrowserVars

\* the browser executor with a browser.close() that can throw
NextBrowserClose ==
    \/ \E plan \in BrowserPlans, provider \in BrowserProviders,
          session \in {"ok", "fallback", "down"} :
          ExecuteBrowserTask("u1", plan, provider, session)
    \/ \E provider \in BrowserProviders, session \in {"ok", "fallback", "down"} :
          ReplayBrowserRun("u1", provider, session)
    \/ BrowserStepGateOpen
    \/ \E outcome \in {"success", "checkpoint", "failure"}, landed \in {Url.Shop, Url.Cvv} :
          BrowserAttemptOpen(outcome, landed)
    \/ \E landed \in {Url.Shop, Url.Cvv} : BrowserCheckpointCloseThrows(landed)
    \/ BrowserRelease
    \/ \E thrown \in BOOLEAN : BrowserClose(thrown)
    \/ BrowserException
    \/ \E requestId \in 1..MaxApprovals, approve \in BOOLEAN :
          ResolveBrowserApproval(requestId, approve)
    \/ \E value \in BOOLEAN : SetHardStop(value)

(***************************************************************************)
(* Harness orchestrator and run repository                                 *)
(***************************************************************************)
\* the patterns of the risk classifier, each /\b(...)\b/i
PATTERNS ==
    <<
      [level |-> "critical",
       words |-> {<<"r", "e", "f", "a", "c", "t", "o", "r">>,
                 <<"e", "d", "i", "t">>, <<"p", "a", "t", "c", "h">>,
                 <<"f", "i", "x">>,
                 <<"i", "m", "p", "l", "e", "m", "e", "n", "t">>,
                 <<"w", "r", "i", "t", "e", " ", "c", "o", "d", "e">>,
                 <<"c", "h", "a", "n", "g", "e", " ", "c", "o", "d", "e">>,
                 <<"c", "o", "m", "m", "i", "t">>,
                 <<"p", "u", "l", "l", " ", "r", "e", "q", "u", "e", "s", "t">>,
                 <<"m", "i", "g", "r", "a", "t", "i", "o", "n">>}],
      [level |-> "critical",
       words |-> {<<"i", "n", "s", "t", "a", "l", "l">>,
                 <<"n", "p", "m", " ", "i">>,
                 <<"p", "i", "p", " ", "i", "n", "s", "t", "a", "l", "l">>,
                 <<"b", "r", "e", "w", " ", "i", "n", "s", "t", "a", "l", "l">>,
                 <<"d", "o", "w", "n", "l", "o", "a", "d", " ", "e", "x", "e", "c", "u", "t", "a", "b", "l", "e">>,
                 <<"s", "c", "r", "i", "p", "t", " ", "i", "n", "s", "t", "a", "l", "l">>,
                 <<"n", "e", "w", " ", "t", "o", "o", "l">>}],
      [level |-> "critical",
       words |-> {<<"d", "e", "l", "e", "t", "e">>, <<"d", "r", "o", "p">>,
                 <<"r", "e", "m", "o", "v", "e", " ", "p", "e", "r", "m", "a", "n", "e", "n", "t", "l", "y">>,
                 <<"i", "r", "r", "e", "v", "e", "r", "s", "i", "b", "l", "e">>,
                 <<"t", "r", "a", "n", "s", "f", "e", "r">>,
                 <<"w", "a", "l", "l", "e", "t">>,
                 <<"c", "h", "e", "c", "k", "o", "u", "t">>,
                 <<"p", "a", "y">>, <<"p", "a", "y", "m", "e", "n", "t">>,
                 <<"p", "u", "r", "c", "h", "a", "s", "e">>,
                 <<"w", "i", "r", "e">>}],
      [level |-> "high",
       words |-> {<<"c", "o", "n", "t", "r", "a", "c", "t">>,
                 <<"c", "o", "m", "m", "i", "t", "m", "e", "n", "t">>,
                 <<"p", "r", "o", "m", "i", "s", "e">>,
                 <<"d", "e", "a", "d", "l", "i", "n", "e">>,
                 <<"s", "e", "n", "d", " ", "t", "o", " ", "c", "l", "i", "e", "n", "t">>,
                 <<"c", "u", "s", "t", "o", "m", "e", "r", " ", "c", "o", "m", "m", "u", "n", "i", "c", "a", "t", "i", "o", "n">>,
                 <<"l", "e", "g", "a", "l">>}],
      [level |-> "high",
       words |-> {<<"f", "a", "c", "t">>,
                 <<"r", "e", "s", "e", "a", "r", "c", "h">>,
                 <<"l", "a", "t", "e", "s", "t">>,
                 <<"t", "o", "d", "a", "y">>,
                 <<"f", "i", "n", "a", "n", "c", "i", "a", "l">>,
                 <<"m", "e", "d", "i", "c", "a", "l">>,
                 <<"l", "e", "g", "a", "l">>,
                 <<"s", "e", "c", "u", "r", "i", "t", "y">>}],
      [level |-> "medium",
       words |-> {<<"b", "r", "o", "w", "s", "e">>,
                 <<"b", "r", "o", "w", "s", "e", "r">>,
                 <<"c", "h", "r", "o", "m", "e">>,
                 <<"w", "e", "b", "s", "i", "t", "e">>,
                 <<"l", "o", "g", "i", "n">>,
                 <<"a", "c", "c", "o", "u", "n", "t">>}]
    >>

\* such a pattern finds a match in s
MatchesWord(s, words) ==
    LET t == toLowerCase(s)
    IN  \E w \in words : \E i \in 1..Len(t) :
           MatchAt(t, i, w) /\ WordBoundary(t, i) /\ WordBoundary(t, i + Len(w))

rank(level) ==
    IF level = "medium" THEN 1
    ELSE IF level = "high" THEN 2
    ELSE IF level = "critical" THEN 3
    ELSE 0

classifyRisk(objective) ==
    LET levels == {PATTERNS[i].level : i \in {j \in DOMAIN PATTERNS :
                                              MatchesWord(objective, PATTERNS[j].words)}}
    IN  IF levels = {} THEN "low"
        ELSE CHOOSE l \in levels : \A m \in levels : rank(m) <= rank(l)

BrowserRouteWords ==
    {<<"c", "h", "r", "o", "m", "e">>, <<"b", "r", "o", "w", "s", "e", "r">>,
     <<"o", "p", "e", "n", " ", "w", "e", "b", "s", "i", "t", "e">>,
     <<"n", "a", "v", "i", "g", "a", "t", "e">>, <<"l", "o", "g", "i", "n">>}

ToolingRouteWords ==
    {<<"i", "n", "s", "t", "a", "l", "l">>, <<"t", "o", "o", "l">>,
     <<"p", "l", "u", "g", "i", "n">>, <<"n", "p", "m">>, <<"p", "i", "p">>,
     <<"b", "r", "e", "w">>}

MemoryRouteWords ==
    {<<"r", "e", "m", "e", "m", "b", "e", "r">>,
     <<"m", "e", "m", "o", "r", "y">>,
     <<"p", "r", "e", "f", "e", "r", "e", "n", "c", "e">>,
     <<"n", "o", "t", "e", " ", "t", "h", "i", "s">>}

\* one of the words occurs somewhere in s
FindsWord(s, words) == \E w \in words : \E i \in 1..Len(s) : MatchAt(s, i, w)

routeTask(message) ==
    LET normalized == toLowerCase(message)
    IN  IF FindsWord(normalized, BrowserRouteWords) THEN "browser"
        ELSE IF FindsWord(normalized, ToolingRouteWords) THEN "tooling"
        ELSE IF FindsWord(normalized, MemoryRouteWords) THEN "memory"
        ELSE "agent"

\* the publish gate is switched off: it lets every output through
applyPublishGate == [allow |-> TRUE, requiresApproval |-> FALSE]

\* [objective, candidateOutput].filter(Boolean).join('\n')
sourceText(objective, candidateOutput) ==
    IF candidateOutput = <<>> THEN objective
    ELSE IF objective = <<>> THEN candidateOutput
    ELSE objective \o <<"\n">> \o candidateOutput

\* the messages the model hands to the harness: the objective, the output
\* the loop ends with, and the plan parseBrowserPlan reads out of the two
Task ==
    [Hello |-> [objective |-> <<"h", "i">>, output |-> <<"o", "k">>, plan |-> <<>>],
     Npm |-> [objective |-> Blob.NpmVersion, output |-> <<>>, plan |-> <<>>],
     Prose |-> [objective |-> Blob.Prose, output |-> <<>>, plan |-> <<>>],
     Login |-> [objective |-> <<"l", "o", "g", "i", "n">>, output |-> <<>>,
         plan |-> <<StepNavigate(Url.Shop), StepClick(<<"t", "e", "x", "t", "=", "P", "a", "y">>)>>]]

HarnessTasks == {Task.Hello, Task.Npm, Task.Prose, Task.Login}

\* the orchestrator's pure functions on the messages of the model, computed once
RouteOf == [task \in HarnessTasks |-> routeTask(task.objective)]

RiskOf == [task \in HarnessTasks |-> classifyRisk(task.objective)]

\* the runs the model creates and the clock ticks it takes after the start
MaxRuns == 1

MaxClock == 1

\* LIMIT 200 of the SELECT in supersedeNeedsInputRuns
SUPERSEDE_LIMIT == 200

NoMsg == [channel |-> "none", senderId |-> "", cutoff |-> 0]

NoHarnessRun ==
    [run |-> 0, route |-> "none", userId |-> "none", blob |-> <<>>, plan |-> <<>>,
     useClaudeChrome |-> FALSE]

NoHarnessResult == [run |-> 0, status |-> "none", requestId |-> 0]

HarnessInit ==
    /\ taskRuns = <<>>
    /\ now = 0
    /\ hPc = "idle"
    /\ hRun = NoHarnessRun
    /\ hResult = NoHarnessResult
    /\ lastMsg = NoMsg

\* INSERT INTO task_runs
createTaskRun(table, channel, senderId, ts) ==
    Append(table, [channel |-> channel, senderId |-> senderId,
                   status |-> "in_progress", created_at |-> ts,
                   updated_at |-> ts, events |-> <<>>])

\* UPDATE task_runs: the status when the patch has one, updated_at always
updateTaskRun(table, run, patch, ts) ==
    [table EXCEPT ![run].status = IF "status" \in DOMAIN patch THEN patch.status ELSE @,
                  ![run].updated_at = ts]

\* INSERT INTO task_events
appendTaskEvent(table, run, eventType) ==
    [table EXCEPT ![run].events = Append(@, eventType)]

\* the run ids the SELECT of supersedeNeedsInputRuns returns: the matching
\* rows ORDER BY updated_at ASC (rows of one updated_at in insertion order)
\* LIMIT 200
supersededIds(table, channel, senderId, beforeTs) ==
    IF senderId = "" THEN {}
    ELSE LET rows == {r \in DOMAIN table :
                         /\ table[r].channel = channel
                         /\ table[r].senderId = senderId
                         /\ table[r].status = "needs_input"
                         /\ table[r].updated_at < beforeTs}
             before(r) == {q \in rows :
                              \/ table[q].updated_at < table[r].updated_at
                              \/ table[q].updated_at = table[r].updated_at /\ q < r}
         IN  IF Cardinality(rows) <= SUPERSEDE_LIMIT THEN rows
             ELSE {r \in rows : Cardinality(before(r)) < SUPERSEDE_LIMIT}

\* the table after supersedeNeedsInputRuns and the event the queue processor
\* appends for each id it returns
supersedeNeedsInputRuns(table, channel, senderId, beforeTs, ts) ==
    LET ids == supersededIds(table, channel, senderId, beforeTs)
    IN  IF ids = {} THEN table
        ELSE [r \in DOMAIN table |->
            IF r \in ids
            THEN [table[r] EXCEPT !.status = "rejected", !.updated_at = ts,
                                  !.events = Append(@, "superseded_by_new_message")]
            ELSE table[r]]

\* executeHarness up to its call of the loop
HarnessStart(table, channel, senderId, task, claudeChrome) ==
    LET run     == Len(table) + 1
        route   == RouteOf[task]
        created == createTaskRun(table, channel, senderId, now)
        routed  == appendTaskEvent(appendTaskEvent(created, run, "risk_classified"),
                                   run, "task_routed")
    IN  /\ Cardinality({r \in DOMAIN table : table[r].created_at >= 0}) < MaxRuns
        /\ taskRuns' = IF route = "browser"
                       THEN appendTaskEvent(routed, run, "browser_model_routing")
                       ELSE routed
        /\ hRun' = [run |-> run, route |-> route,
                    userId |-> IF senderId # "" THEN senderId ELSE "sender",
                    blob |-> sourceText(task.objective, task.output),
                    plan |-> task.plan,
                    useClaudeChrome |-> route = "browser" /\ claudeChrome]
        /\ hPc' = "loop"
        /\ hResult' = NoHarnessResult
        /\ LoopStart(RiskOf[task])

\* processMessage from the easter egg to the invocation of the agent:
\* agentId is the routing result, enabled is settings.harness.enabled
SupersedeAndInvoke(channel, senderId, isInternal, agentId, enabled, task, claudeChrome) ==
    /\ hPc = "idle"
    /\ IF ~isInternal /\ agentId = "error"
       THEN /\ hResult' = [run |-> 0, status |-> "easter_egg", requestId |-> 0]
            /\ UNCHANGED <<taskRuns, hPc, hRun, lastMsg, loopVars>>
       ELSE LET supersede == ~isInternal /\ enabled /\ channel # "heartbeat"
                                /\ senderId # ""
                table == IF supersede
                         THEN supersedeNeedsInputRuns(taskRuns, channel, senderId, now, now)
                         ELSE taskRuns
            IN  /\ lastMsg' = IF supersede
                              THEN [channel |-> channel, senderId |-> senderId,
                                    cutoff |-> now]
                              ELSE lastMsg
                /\ IF enabled /\ channel # "heartbeat"
                   THEN HarnessStart(table, channel, senderId, task, claudeChrome)
                   ELSE /\ hResult' = [run |-> 0, status |-> "agent", requestId |-> 0]
                        /\ UNCHANGED <<taskRuns, hPc, hRun, loopVars>>
    /\ UNCHANGED <<now, toolVars, browserVars, queueVars, serviceVars>>

\* a return of executeHarness
Finalize(table, status, requestId) ==
    /\ taskRuns' = table
    /\ hPc' = "idle"
    /\ hRun' = NoHarnessRun
    /\ hResult' = [run |-> hRun.run, status |-> status, requestId |-> requestId]
    /\ UNCHANGED <<now, lastMsg>>

\* executeHarness returns without storing the status it returns
FinalizeUnsaved(table, status, events, requestId) ==
    Finalize(table, status, requestId)

\* a return with the run updated to the status and the events appended
FinalizeAs(table, status, events, requestId) ==
    LET updated == updateTaskRun(table, hRun.run, [status |-> status], now)
        logged  == IF Len(events) = 2
                   THEN appendTaskEvent(appendTaskEvent(updated, hRun.run, events[1]),
                                        hRun.run, events[2])
                   ELSE IF Len(events) = 1
                   THEN appendTaskEvent(updated, hRun.run, events[1])
                   ELSE updated
    IN  Finalize(logged, status, requestId)

\* the loop has returned: loopIteration and verifierOutcome are stored
LoopReturned == hPc = "loop" /\ loopPc = "returned"

AfterLoop == updateTaskRun(taskRuns, hRun.run, [loopIteration |-> loopResult.loopsUsed], now)

\* askTargetedQuestion(objective): which of its three questions it returns.
\* In /\bcode|implement|fix|refactor|patch\b/i the first \b binds to code
\* and the last to patch alone, and so in the payment expression.
askTargetedQuestion(objective) ==
    LET t == toLowerCase(objective)
        at(w, i) == MatchAt(t, i, w)
        finds(w) == \E i \in 1..Len(t) : at(w, i)
        starts(w) == \E i \in 1..Len(t) : at(w, i) /\ WordBoundary(t, i)
        ends(w) == \E i \in 1..Len(t) : at(w, i) /\ WordBoundary(t, i + Len(w))
    IN  IF \/ starts(<<"c", "o", "d", "e">>)
           \/ finds(<<"i", "m", "p", "l", "e", "m", "e", "n", "t">>)
           \/ finds(<<"f", "i", "x">>)
           \/ finds(<<"r", "e", "f", "a", "c", "t", "o", "r">>)
           \/ ends(<<"p", "a", "t", "c", "h">>)
        THEN "share the exact files/functions and acceptance criteria"
        ELSE IF \/ starts(<<"p", "a", "y", "m", "e", "n", "t">>)
                \/ finds(<<"p", "u", "r", "c", "h", "a", "s", "e">>)
                \/ finds(<<"t", "r", "a", "n", "s", "f", "e", "r">>)
                \/ ends(<<"c", "h", "e", "c", "k", "o", "u", "t">>)
        THEN "explicit confirmation for payment-related actions"
        ELSE "one clarifying detail"

\* a loop that is never out of budget
LoopWithinBudget == FALSE

LoopOutOfBudget == loopResult.exhausted /\ verdict # "pass"

PublishGateBlocks == ~applyPublishGate.allow /\ applyPublishGate.requiresApproval

\* generate or revise throws: the catch of executeHarness
HarnessCatch ==
    /\ hPc = "loop"
    /\ loopPc \in {"generate", "revise"}
    /\ loopPc' = "idle"
    /\ FinalizeAs(taskRuns, "failed", <<"failed">>, 0)
    /\ UNCHANGED <<loopRisk, iteration, verdict, verifyCalls, reviseCalls,
                   loopResult, loopEvent>>
    /\ UNCHANGED <<toolVars, browserVars, queueVars, serviceVars>>

\* the loop ran out of budget without a pass
HarnessLoopExhausted ==
    /\ LoopReturned
    /\ LoopOutOfBudget
    /\ FinalizeAs(AfterLoop, "needs_input", <<"needs_input">>, 0)
    /\ UNCHANGED <<loopVars, toolVars, browserVars, queueVars, serviceVars>>

\* the routes that end with the loop's output
HarnessPublish ==
    /\ LoopReturned
    /\ ~LoopOutOfBudget
    /\ hRun.route # "tooling"
    /\ ~(hRun.route = "browser" /\ ~hRun.useClaudeChrome)
    /\ IF hRun.route # "browser" /\ PublishGateBlocks
       THEN FinalizeAs(AfterLoop, "awaiting_approval", <<"awaiting_approval">>, 0)
       ELSE FinalizeAs(appendTaskEvent(AfterLoop, hRun.run, "skill_autodraft"),
                       "verified", <<"verified">>, 0)
    /\ UNCHANGED <<loopVars, toolVars, browserVars, queueVars, serviceVars>>

\* the tooling route up to the first await of executeToolingTask
HarnessCallTooling ==
    /\ LoopReturned
    /\ ~LoopOutOfBudget
    /\ hRun.route = "tooling"
    /\ IF PublishGateBlocks
       THEN /\ FinalizeAs(AfterLoop, "awaiting_approval", <<"awaiting_approval">>, 0)
            /\ UNCHANGED toolVars
       ELSE /\ ToolingCall(hRun.userId, hRun.blob)
            /\ taskRuns' = AfterLoop
            /\ hPc' = "tooling"
            /\ UNCHANGED <<now, hRun, hResult, lastMsg>>
    /\ UNCHANGED <<loopVars, browserVars, queueVars, serviceVars>>

\* the tooling route after executeToolingTask has returned
HarnessToolingReturn ==
    /\ hPc = "tooling"
    /\ toolPc = "idle"
    /\ LET logged == appendTaskEvent(taskRuns, hRun.run, "tooling_execution")
       IN  IF toolCall.status = "needs_input"
           THEN FinalizeAs(logged, "needs_input", <<>>, 0)
           ELSE IF toolCall.status = "failed"
           THEN FinalizeAs(logged, "failed", <<>>, 0)
           ELSE FinalizeAs(logged, "verified", <<"verified", "skill_autodraft">>,
                           toolCall.requestId)
    /\ UNCHANGED <<loopVars, toolVars, browserVars, queueVars, serviceVars>>

\* the browser route up to the first await of executeBrowserTask
HarnessCallBrowser(provider, session) ==
    /\ LoopReturned
    /\ ~LoopOutOfBudget
    /\ hRun.route = "browser"
    /\ ~hRun.useClaudeChrome
    /\ BrowserPlanCall("task", hRun.userId, hRun.plan, provider, session)
    /\ taskRuns' = AfterLoop
    /\ hPc' = "browser"
    /\ UNCHANGED <<now, hRun, hResult, lastMsg>>
    /\ UNCHANGED <<loopVars, toolVars, queueVars, serviceVars>>

\* the browser route after executeBrowserTask has returned
HarnessBrowserReturn ==
    /\ hPc = "browser"
    /\ brPc = "idle"
    /\ LET logged == appendTaskEvent(taskRuns, hRun.run, "browser_execution")
       IN  IF brResult.status = "needs_input"
           THEN FinalizeAs(logged, "needs_input", <<>>, 0)
           ELSE IF brResult.status = "failed"
           THEN FinalizeAs(logged, "failed", <<>>, 0)
           ELSE FinalizeAs(appendTaskEvent(logged, hRun.run, "skill_autodraft"),
                           "verified", <<"verified">>, brResult.requestId)
    /\ UNCHANGED <<loopVars, toolVars, browserVars, queueVars, serviceVars>>

\* a millisecond passes
Tick ==
    /\ now < MaxClock
    /\ now' = now + 1
    /\ UNCHANGED <<taskRuns, hPc, hRun, hResult, lastMsg>>
    /\ UNCHANGED <<loopVars, toolVars, browserVars, queueVars, serviceVars>>

NextHarness ==
    \/ \E task \in HarnessTasks, claudeChrome \in BOOLEAN :
          SupersedeAndInvoke("telegram", "u1", FALSE, "default", TRUE, task, claudeChrome)
    \/ LoopGenerate
    \/ LoopVerify
    \/ LoopTest
    \/ LoopRevise
    \/ HarnessCatch
    \/ HarnessLoopExhausted
    \/ HarnessPublish
    \/ HarnessCallTooling
    \/ HarnessToolingReturn
    \/ \E session \in {"ok", "down"} : HarnessCallBrowser("auto", session)
    \/ HarnessBrowserReturn
    \/ \E code \in {0, 1} : ToolChildClose(code)
    \/ PermissionGrant("u1", <<"n", "p", "m">>)
    \/ BrowserStepGate
    \/ \E outcome \in {"success", "checkpoint", "failure"}, landed \in {Url.Shop, Url.Cvv} :
          BrowserAttempt(outcome, landed)
    \/ BrowserException

\* runs of earlier messages that wait for input when the process starts
BacklogSizes == {1, SUPERSEDE_LIMIT + 1}

Backlog(n) ==
    [k \in 1..n |->
        [channel |-> "telegram", senderId |-> "u1", status |-> "needs_input",
         created_at |-> k - n - 1, updated_at |-> k - n - 1,
         events |-> <<"risk_classified", "task_routed", "needs_input">>]]

\* where the messages of the model come from: two users of a channel, a
\* message without a sender id, and the heartbeat
Sources ==
    {[channel |-> "telegram", senderId |-> "u1"],
     [channel |-> "telegram", senderId |-> "u2"],
     [channel |-> "telegram", senderId |-> ""],
     [channel |-> "heartbeat", senderId |-> "u1"]}

\* an external message, one mentioning several agents, an internal message
\* of a team conversation, and an external message with the harness disabled
MessageKinds ==
    {[isInternal |-> FALSE, agentId |-> "default", enabled |-> TRUE],
     [isInternal |-> FALSE, agentId |-> "error", enabled |-> TRUE],
     [isInternal |-> TRUE, agentId |-> "default", enabled |-> TRUE],
     [isInternal |-> FALSE, agentId |-> "default", enabled |-> FALSE]}

NextSupersede ==
    \/ \E source \in Sources, kind \in MessageKinds :
          SupersedeAndInvoke(source.channel, source.senderId, kind.isInternal,
                             kind.agentId, kind.enabled, Task.Hello, TRUE)
    \/ LoopGenerate
    \/ LoopVerify
    \/ LoopTest
    \/ HarnessCatch
    \/ HarnessLoopExhausted
    \/ HarnessPublish
    \/ Tick

(***************************************************************************)
(* File queue and queue processor (queue-processor.ts)                     *)
(***************************************************************************)
\* Object.keys(settings.agents): four agents, none of them called default
AgentIds == <<"a", "b", "c", "d">>

Agents == {AgentIds[i] : i \in DOMAIN AgentIds}

\* settings.teams: one team, led by a
Team == [agents |-> {"a", "b", "c"}, leader_agent |-> "a"]

MAX_CONVERSATION_MESSAGES == 50

\* the external and the internal messages the model writes
MaxExternal == 2

MaxInternal == 2

\* the conversations the model starts
MaxConversations == 3

\* the handler exceptions the model throws
MaxThrows == 1

\* how an external message starts: with no mention, with @a, with @d, or
\* with mentions of several agents
Prefixes == {"", "@a", "@d", "@a @b"}

\* the teammates a response mentions, as [@teammate: ...] tags
MentionSets == {{}, {"b"}, {"b", "c"}}

\* where the second half of a handler throws: nowhere, in the write of an
\* internal message, or in the write of the outgoing envelope
Faults == {"none", "enqueue", "write"}

ChainKeys == Agents \cup {"default", "error"}

\* parseAgentRouting(...).agentId
parseAgentRouting(prefix) ==
    IF prefix = "@a @b" THEN "error"
    ELSE IF prefix = "@a" THEN "a"
    ELSE IF prefix = "@d" THEN "d"
    ELSE "default"

\* the agent id a message file is routed to before the fallbacks
routedAgent(file) ==
    IF file.agent \in Agents THEN file.agent ELSE parseAgentRouting(file.prefix)

\* one chain for every file
peekOneChain(file) == "default"

\* the key of the chain processQueue appends the file to
peekAgentId(file) ==
    IF routedAgent(file) = "" THEN "default" ELSE routedAgent(file)

\* the agent processMessage invokes
resolveAgent(file) ==
    LET fallback == IF routedAgent(file) \in Agents THEN routedAgent(file) ELSE "default"
    IN  IF fallback \in Agents THEN fallback ELSE AgentIds[1]

\* findTeamForAgent(agentId, teams) finds a team
findTeamForAgent(agentId) == agentId \in Team.agents

\* extractTeammateMentions: mentions of the agent itself and of agents
\* outside the team are rejected
extractTeammateMentions(mentions, agentId) == (mentions \cap Team.agents) \ {agentId}

\* the elements of a set of numbers in ascending order
Ascending(S) ==
    [i \in 1..Cardinality(S) |-> CHOOSE x \in S : Cardinality({y \in S : y < x}) = i - 1]

NoChains == [key \in ChainKeys |-> <<>>]

\* the place of a record that is no longer in the conversations map
NoConversation == [pending |-> 0, responses |-> <<>>, totalMessages |-> 0, live |-> FALSE]

QueueInit ==
    /\ files = <<>>
    /\ queuedFiles = {}
    /\ chains = NoChains
    /\ running = {}
    /\ conversations = <<>>
    /\ outgoing = {}
    /\ completed = {}
    /\ throws = 0

\* a channel client writes a message file to incoming/
WriteIncoming(prefix) ==
    /\ Cardinality({f \in DOMAIN files : ~files[f].internal}) < MaxExternal
    /\ files' = Append(files, [internal |-> FALSE, agent |-> "", prefix |-> prefix,
                               conversationId |-> 0, loc |-> "incoming"])
    /\ UNCHANGED <<queuedFiles, chains, running, conversations, outgoing, completed, throws>>
    /\ UNCHANGED notQueueVars

\* a polling tick that does not look at queuedFiles
ProcessQueueAgain ==
    LET fresh == {f \in DOMAIN files : files[f].loc = "incoming"}
    IN  /\ fresh # {}
        /\ \A key \in ChainKeys : Len(chains[key]) < MaxExternal + MaxInternal
        /\ queuedFiles' = queuedFiles \cup fresh
        /\ chains' = [key \in ChainKeys |->
                         chains[key] \o Ascending({f \in fresh : peekAgentId(files[f]) = key})]
        /\ UNCHANGED <<files, running, conversations, outgoing, completed, throws>>
        /\ UNCHANGED notQueueVars

\* a polling tick: the files of incoming/ in mtime order (the order in which
\* they were written), each new one appended to the chain of its agent
ProcessQueue ==
    LET fresh == {f \in DOMAIN files : files[f].loc = "incoming" /\ f \notin queuedFiles}
    IN  /\ fresh # {}
        /\ queuedFiles' = queuedFiles \cup fresh
        /\ chains' = [key \in ChainKeys |->
                         chains[key] \o Ascending({f \in fresh : peekAgentId(files[f]) = key})]
        /\ UNCHANGED <<files, running, conversations, outgoing, completed, throws>>
        /\ UNCHANGED notQueueVars

\* the handler of the head of a chain returns: the chain goes on and the
\* finally callback takes the file out of queuedFiles
HandlerReturns(key, f) ==
    /\ chains' = [chains EXCEPT ![key] = Tail(@)]
    /\ queuedFiles' = queuedFiles \ {f}
    /\ running' = running \ {f}
    /\ completed' = completed \cup {f}

\* processMessage up to the invocation of the agent
ProcessMessageClaim(key) ==
    /\ chains[key] # <<>>
    /\ Head(chains[key]) \notin running
    /\ LET f == Head(chains[key])
       IN  /\ IF files[f].loc # "incoming"
              THEN /\ HandlerReturns(key, f)
                   /\ UNCHANGED <<files, outgoing>>
              ELSE IF ~files[f].internal /\ routedAgent(files[f]) = "error"
              THEN /\ outgoing' = outgoing \cup {[conv |-> 0, parts |-> {f},
                                                   delivered |-> FALSE]}
                   /\ files' = [files EXCEPT ![f].loc = "gone"]
                   /\ HandlerReturns(key, f)
              ELSE /\ files' = [files EXCEPT ![f].loc = "processing"]
                   /\ running' = running \cup {f}
                   /\ UNCHANGED <<queuedFiles, chains, outgoing, completed>>
    /\ UNCHANGED <<conversations, throws>>
    /\ UNCHANGED notQueueVars

\* processMessage after the agent has answered with a response that
\* mentions the teammates of mentions
ProcessMessageFinish(key, mentions, fault) ==
    /\ chains[key] # <<>>
    /\ Head(chains[key]) \in running
    /\ LET f        == Head(chains[key])
           file     == files[f]
           agentId  == resolveAgent(file)
           known    == file.internal /\ file.conversationId \in DOMAIN conversations
                          /\ conversations[file.conversationId].live
           inTeam   == IF file.internal THEN known ELSE findTeamForAgent(agentId)
           convId   == IF known THEN file.conversationId ELSE Len(conversations) + 1
           conv     == IF known THEN conversations[convId]
                       ELSE [pending |-> 1, responses |-> <<>>, totalMessages |-> 0,
                             live |-> TRUE]
           recorded == [conv EXCEPT !.responses = Append(@, f), !.totalMessages = @ + 1]
           teammateMentions == Ascending({i \in DOMAIN AgentIds :
                                   AgentIds[i] \in extractTeammateMentions(mentions, agentId)})
           handsOff == teammateMentions # <<>>
                          /\ recorded.totalMessages < MAX_CONVERSATION_MESSAGES
           counted  == IF handsOff
                       THEN [recorded EXCEPT !.pending = @ + Len(teammateMentions)]
                       ELSE recorded
           internal == IF handsOff
                       THEN [i \in DOMAIN teammateMentions |->
                                [internal |-> TRUE, agent |-> AgentIds[teammateMentions[i]],
                                 prefix |-> "", conversationId |-> convId,
                                 loc |-> "incoming"]]
                       ELSE <<>>
           done     == [counted EXCEPT !.pending = @ - 1]
           store(c)  == IF known THEN [conversations EXCEPT ![convId] = c]
                        ELSE Append(conversations, c)
           back(fs)  == [fs EXCEPT ![f].loc = "incoming"]
           thrown    == \/ ~inTeam /\ fault = "write"
                        \/ inTeam /\ handsOff /\ fault = "enqueue"
                        \/ inTeam /\ ~(handsOff /\ fault = "enqueue")
                              /\ done.pending = 0 /\ fault = "write"
           gone(fs)  == [fs EXCEPT ![f].loc = "gone"]
       IN  /\ Cardinality({g \in DOMAIN files : files[g].internal}) + Len(internal)
                 <= MaxInternal
           /\ inTeam /\ ~known => Len(conversations) < MaxConversations
           /\ thrown => throws < MaxThrows
           /\ throws' = IF thrown THEN throws + 1 ELSE throws
           /\ IF ~inTeam
              THEN /\ IF fault = "write"
                      THEN files' = back(files) /\ UNCHANGED outgoing
                      ELSE /\ outgoing' = outgoing \cup {[conv |-> 0, parts |-> {f},
                                                           delivered |-> FALSE]}
                           /\ files' = gone(files)
                   /\ UNCHANGED conversations
              ELSE IF handsOff /\ fault = "enqueue"
              THEN /\ conversations' = store(counted)
                   /\ files' = back(files)
                   /\ UNCHANGED outgoing
              ELSE IF done.pending # 0
              THEN /\ conversations' = store(done)
                   /\ files' = gone(files \o internal)
                   /\ UNCHANGED outgoing
              ELSE IF fault = "write"
              THEN /\ conversations' = store(done)
                   /\ files' = back(files \o internal)
                   /\ UNCHANGED outgoing
              ELSE /\ conversations' = store(NoConversation)
                   /\ outgoing' = outgoing \cup
                                      {[conv |-> convId,
                                        parts |-> {done.responses[i] : i \in DOMAIN done.responses},
                                        delivered |-> FALSE]}
                   /\ files' = gone(files \o internal)
           /\ HandlerReturns(key, f)
    /\ UNCHANGED notQueueVars

\* the process stops and starts again: the maps of the old process are lost
\* and recoverOrphanedFiles moves the files of processing/ back
Restart ==
    /\ queuedFiles # {} \/ \E c \in DOMAIN conversations : conversations[c].live
    /\ files' = [f \in DOMAIN files |->
                    IF files[f].loc = "processing"
                    THEN [files[f] EXCEPT !.loc = "incoming"] ELSE files[f]]
    /\ queuedFiles' = {}
    /\ chains' = NoChains
    /\ running' = {}
    /\ conversations' = [c \in DOMAIN conversations |-> NoConversation]
    /\ UNCHANGED <<outgoing, completed, throws>>
    /\ UNCHANGED notQueueVars

\* a channel client sends a response of outgoing/ and deletes its file
Deliver ==
    /\ \E e \in outgoing :
          /\ ~e.delivered
          /\ outgoing' = (outgoing \ {e}) \cup {[e EXCEPT !.delivered = TRUE]}
    /\ UNCHANGED <<files, queuedFiles, chains, running, conversations, completed, throws>>
    /\ UNCHANGED notQueueVars

\* a file that is not a message: JSON.parse rejects its text, or it has no
\* message field and rawMessage.substring throws
Malformed == "{"

\* something other than a channel client leaves such a file in incoming/
WriteMalformed ==
    /\ WriteIncoming(Malformed)
    /\ \A f \in DOMAIN files : files[f].prefix # Malformed

\* processMessage of such a file: renamed to processing/, the read throws
\* inside the try, and the catch renames the file back for retry
ProcessMessageMalformed(key) ==
    /\ chains[key] # <<>>
    /\ Head(chains[key]) \notin running
    /\ files[Head(chains[key])].loc = "incoming"
    /\ files[Head(chains[key])].prefix = Malformed
    /\ HandlerReturns(key, Head(chains[key]))
    /\ UNCHANGED <<files, conversations, outgoing, throws>>
    /\ UNCHANGED notQueueVars

\* processMessage of a message, up to the invocation of the agent
ProcessMessageClaimed(key) ==
    /\ ProcessMessageClaim(key)
    /\ files[Head(chains[key])].prefix # Malformed

\* the agent answers and no write fails
ProcessMessageAnswered(key) ==
    \E mentions \in MentionSets : ProcessMessageFinish(key, mentions, "none")

\* the queue processor with polling ticks that keep firing and agent
\* invocations that terminate
NextQueueLive ==
    \/ \E prefix \in {"", "@a"} : WriteIncoming(prefix)
    \/ WriteMalformed
    \/ ProcessQueue
    \/ \E key \in ChainKeys : ProcessMessageClaimed(key)
    \/ \E key \in ChainKeys : ProcessMessageAnswered(key)
    \/ \E key \in ChainKeys : ProcessMessageMalformed(key)

QueueFairness ==
    /\ WF_vars(ProcessQueue)
    /\ \A key \in ChainKeys :
          /\ WF_vars(ProcessMessageClaimed(key))
          /\ WF_vars(ProcessMessageAnswered(key))
          /\ WF_vars(ProcessMessageMalformed(key))

NextQueue ==
    \/ \E prefix \in Prefixes : WriteIncoming(prefix)
    \/ ProcessQueue
    \/ \E key \in ChainKeys : ProcessMessageClaim(key)
    \/ \E key \in ChainKeys, mentions \in MentionSets, fault \in Faults :
          ProcessMessageFinish(key, mentions, fault)
    \/ Deliver

NextRestart ==
    \/ \E prefix \in Prefixes : WriteIncoming(prefix)
    \/ ProcessQueue
    \/ \E key \in ChainKeys : ProcessMessageClaim(key)
    \/ \E key \in ChainKeys, mentions \in MentionSets :
          ProcessMessageFinish(key, mentions, "none")
    \/ Deliver
    \/ Restart

(***************************************************************************)
(* Proactive scheduler (harness/runtime/proactive-notifier.ts)             *)
(***************************************************************************)
\* the minutes of the model's day: nowLocalMinutes() is in 0..DayMinutes-1
DayMinutes == 4

\* the proactive messages the model queues
MaxProactive == 3

\* settings.quiet_hours after parseClock: a window inside the day, a window
\* that wraps around midnight, and start = end
QuietWindows ==
    {[start |-> 1, end |-> 3], [start |-> 3, end |-> 1], [start |-> 2, end |-> 2]}

ProactiveInit ==
    /\ clock = 0
    /\ quietHours = [start |-> 1, end |-> 3]
    /\ deferredFile = <<>>
    /\ proOutgoing = <<>>
    /\ proLog = <<>>

isQuietHours ==
    LET start   == quietHours.start
        end     == quietHours.end
        current == clock
    IN  IF start = end THEN FALSE
        ELSE IF start < end THEN current >= start /\ current < end
        ELSE current >= start \/ current < end

\* the outgoing queue after enqueueOutgoing: the envelope carries Date.now()
enqueueOutgoing(out, id) == Append(out, [id |-> id, timestamp |-> clock])

\* queueProactiveMessage on the deferred file and the outgoing queue in q
queueProactiveMessage(q, id, urgent) ==
    IF ~urgent /\ isQuietHours
    THEN [q EXCEPT !.deferred = Append(@, [id |-> id, createdAt |-> clock,
                                           urgent |-> urgent])]
    ELSE [q EXCEPT !.outgoing = enqueueOutgoing(@, id)]

RECURSIVE enqueueAll(_, _)
\* the for-loop of flushDeferredProactiveQueue
enqueueAll(out, deferred) ==
    IF deferred = <<>> THEN out
    ELSE enqueueAll(enqueueOutgoing(out, Head(deferred).id), Tail(deferred))

\* a flush that does not look at the quiet hours
flushAlways(q) ==
    IF Len(q.deferred) = 0 THEN q
    ELSE [deferred |-> <<>>, outgoing |-> enqueueAll(q.outgoing, q.deferred)]

flushDeferredProactiveQueue(q) ==
    IF isQuietHours THEN q
    ELSE IF Len(q.deferred) = 0 THEN q
    ELSE [deferred |-> <<>>, outgoing |-> enqueueAll(q.outgoing, q.deferred)]

\* what the log of the model remembers of a queued message
Queued(urgent) == [urgent |-> urgent, quiet |-> isQuietHours, createdAt |-> clock]

\* a minute of local time passes
ClockMinute ==
    /\ clock' = (clock + 1) % DayMinutes
    /\ UNCHANGED <<quietHours, deferredFile, proOutgoing, proLog>>
    /\ UNCHANGED notProactiveVars

\* the settings file gets another quiet_hours window before any message
SetQuietHours(window) ==
    /\ proLog = <<>>
    /\ window # quietHours
    /\ quietHours' = window
    /\ UNCHANGED <<clock, deferredFile, proOutgoing, proLog>>
    /\ UNCHANGED notProactiveVars

\* classifyAndAcknowledge: the acknowledgment of a user's message is urgent
QueueAck ==
    /\ Len(proLog) < MaxProactive
    /\ LET q == queueProactiveMessage([deferred |-> deferredFile, outgoing |-> proOutgoing],
                                      Len(proLog) + 1, TRUE)
       IN  /\ deferredFile' = q.deferred
           /\ proOutgoing' = q.outgoing
    /\ proLog' = Append(proLog, Queued(TRUE))
    /\ UNCHANGED <<clock, quietHours>>
    /\ UNCHANGED notProactiveVars

\* runProactiveTick: with the harness enabled, the deferred messages are
\* flushed, then a digest (not urgent) is queued if one is due, then the
\* outreach for a blocked run if one is due (urgent when the run awaits
\* approval)
ProactiveTick(enabled, digestDue, outreachDue, awaitingApproval) ==
    /\ Len(proLog) + (IF digestDue THEN 1 ELSE 0) + (IF outreachDue THEN 1 ELSE 0)
          <= MaxProactive
    /\ IF ~enabled
       THEN UNCHANGED <<deferredFile, proOutgoing, proLog>>
       ELSE LET flushed  == flushDeferredProactiveQueue(
                               [deferred |-> deferredFile, outgoing |-> proOutgoing])
                digestId == Len(proLog) + 1
                digested == IF digestDue
                            THEN queueProactiveMessage(flushed, digestId, FALSE)
                            ELSE flushed
                logged   == IF digestDue THEN Append(proLog, Queued(FALSE)) ELSE proLog
                reached  == IF outreachDue
                            THEN queueProactiveMessage(digested, Len(logged) + 1,
                                                       awaitingApproval)
                            ELSE digested
            IN  /\ deferredFile' = reached.deferred
                /\ proOutgoing' = reached.outgoing
                /\ proLog' = IF outreachDue
                             THEN Append(logged, Queued(awaitingApproval))
                             ELSE logged
    /\ UNCHANGED <<clock, quietHours>>
    /\ UNCHANGED notProactiveVars

NextProactive ==
    \/ ClockMinute
    \/ \E window \in QuietWindows : SetQuietHours(window)
    \/ QueueAck
    \/ \E enabled, digestDue, outreachDue, awaitingApproval \in BOOLEAN :
          ProactiveTick(enabled, digestDue, outreachDue, awaitingApproval)

(***************************************************************************)
(* Memory service (harness/memory/service.ts) and the memory_records table *)
(***************************************************************************)
\* the rules of buildMemoryRowsFromText in the order of the code: the
\* phrases of the regular expression, whether a comma is among the
\* separators after the phrase, and the confidence (in hundredths)
MemoryRules ==
    <<
      [category |-> "preferences", key |-> "preference", comma |-> FALSE, confidence |-> 85,
       phrases |->
         {<<"i", " ", "p", "r", "e", "f", "e", "r">>,
          <<"p", "l", "e", "a", "s", "e", " ", "a", "l", "w", "a", "y", "s">>,
          <<"m", "y", " ", "p", "r", "e", "f", "e", "r", "e", "n", "c", "e", " ", "i", "s">>,
          <<"i", " ", "u", "s", "u", "a", "l", "l", "y">>}],
      [category |-> "workflows", key |-> "workflow", comma |-> FALSE, confidence |-> 82,
       phrases |->
         {<<"t", "h", "i", "s", " ", "i", "s", " ", "m", "y", " ", "w", "o", "r", "k", "f", "l", "o", "w">>,
          <<"h", "o", "w", " ", "i", " ", "d", "o", " ", "t", "h", "i", "s">>,
          <<"p", "r", "o", "c", "e", "s", "s", " ", "i", "s">>}],
      [category |-> "projects", key |-> "active_project", comma |-> FALSE, confidence |-> 70,
       phrases |->
         {<<"p", "r", "o", "j", "e", "c", "t">>,
          <<"w", "o", "r", "k", "i", "n", "g", " ", "o", "n">>,
          <<"b", "u", "i", "l", "d">>}],
      [category |-> "task_states", key |-> "task_state", comma |-> FALSE, confidence |-> 72,
       phrases |->
         {<<"r", "e", "m", "e", "m", "b", "e", "r", " ", "t", "h", "a", "t">>,
          <<"r", "e", "m", "i", "n", "d", " ", "m", "e">>,
          <<"i", " ", "n", "e", "e", "d", " ", "t", "o">>}],
      [category |-> "confirmed_facts", key |-> "explicit_correction", comma |-> TRUE, confidence |-> 90,
       phrases |->
         {<<"a", "c", "t", "u", "a", "l", "l", "y">>}]>>

\* the objectives and responses the model ingests, each of one line
Text ==
    [Tea |-> <<"I", " ", "p", "r", "e", "f", "e", "r", " ", "t", "e", "a">>,
     AlwaysTea |-> <<"i", " ", "p", "r", "e", "f", "e", "r", ":", " ", "a", "l", "w", "a", "y", "s", " ", "t", "e", "a">>,
     Shout |-> <<"I", " ", "P", "R", "E", "F", "E", "R", " ", "T", "E", "A">>,
     Nap |-> <<"A", "c", "t", "u", "a", "l", "l", "y", ",", " ", "I", " ", "u", "s", "u", "a", "l", "l", "y", " ", "n", "a", "p">>,
     Plan |-> <<"m", "y", " ", "p", "r", "o", "j", "e", "c", "t", " ", "-", " ", "b", "u", "i", "l", "d", " ", "x">>,
     Ok |-> <<"o", "k">>]
Texts == {Text.Tea, Text.AlwaysTea, Text.Shout, Text.Nap, Text.Plan, Text.Ok}

\* user ids; the second holds the separator of the id's hash input
MemoryUsers == {"u1", "u1:preferences"}

\* the objective and the response of the runs of the model
Exchanges ==
    {[objective |-> Text.Tea, responseText |-> Text.Ok],
     [objective |-> Text.AlwaysTea, responseText |-> Text.Ok],
     [objective |-> Text.Tea, responseText |-> Text.Shout],
     [objective |-> Text.Nap, responseText |-> Text.AlwaysTea],
     [objective |-> Text.Plan, responseText |-> Text.Nap],
     [objective |-> Text.Ok, responseText |-> Text.Ok]}

RunIds == {"run_1", "run_2"}

\* [:\s-]* and, for the correction rule, [,:\s-]*
Separators(rule) == Whitespace \cup {":", "-"} \cup (IF rule.comma THEN {","} ELSE {})

\* \b(phrase|...)\b matches at position i of the text, ignoring case
PhraseAt(text, i, rule) ==
    \E p \in rule.phrases :
        /\ MatchAt(toLowerCase(text), i, p)
        /\ WordBoundary(text, i)
        /\ WordBoundary(text, i + Len(p))

\* the position after the phrase that matches at i
PhraseEnd(text, i, rule) ==
    LET p == CHOOSE q \in rule.phrases : MatchAt(toLowerCase(text), i, q)
    IN  i + Len(p)

\* where the group (.+)$ starts when the separators start at j: after the
\* separators, or at the last separator when nothing follows them; 0 when
\* the group cannot match
CaptureFrom(text, j, rule) ==
    LET seps == Separators(rule)
        k    == IF \E n \in j..Len(text) : text[n] \notin seps
                THEN CHOOSE n \in j..Len(text) :
                        /\ text[n] \notin seps
                        /\ \A q \in j..(n - 1) : text[q] \in seps
                ELSE Len(text) + 1
        from == IF k <= Len(text) THEN k ELSE IF k > j THEN Len(text) ELSE 0
    IN  IF from = 0 THEN 0
        ELSE IF \E n \in from..Len(text) : text[n] = "\n" THEN 0
        ELSE from

\* text.match(rule): the start of the group of the leftmost match, or 0
MatchStart(text, rule) ==
    LET ok(i) == PhraseAt(text, i, rule) /\ CaptureFrom(text, PhraseEnd(text, i, rule), rule) # 0
    IN  IF \E i \in 1..Len(text) : ok(i)
        THEN LET i == CHOOSE n \in 1..Len(text) : ok(n) /\ \A q \in 1..(n - 1) : ~ok(q)
             IN  CaptureFrom(text, PhraseEnd(text, i, rule), rule)
        ELSE 0

\* the row a rule yields for a text; matched is FALSE when it yields none
RowOfRule(text, r) ==
    LET rule  == MemoryRules[r]
        from  == MatchStart(text, rule)
        group == IF from = 0 THEN <<>> ELSE SubSeq(text, from, Len(text))
        named == rule.category # "projects"
                    \/ MatchesWord(text, {<<"p", "r", "o", "j", "e", "c", "t">>})
        sure  == MatchesWord(group, {<<"a", "l", "w", "a", "y", "s">>, <<"m", "u", "s", "t">>})
    IN  [matched |-> from # 0 /\ named,
         category |-> rule.category,
         key |-> rule.key,
         value |-> trim(group),
         confidence |-> IF rule.category = "preferences" /\ sure THEN 95
                        ELSE rule.confidence]

buildMemoryRowsFromText(text) ==
    SelectSeq([r \in DOMAIN MemoryRules |-> RowOfRule(text, r)], LAMBDA row : row.matched)

\* buildMemoryRowsFromText of each text of the model
MemoryRowsOf == [text \in Texts |-> buildMemoryRowsFromText(text)]

\* sha1 of the hash input, taken to be free of collisions: the id is the
\* hash input itself (every key of MemoryRules is its own lower case)
deterministicMemoryId(userId, category, key) ==
    "mem_" \o userId \o ":" \o category \o ":" \o key

RECURSIVE dedupRows(_, _)
\* the Map dedup of ingestMemorySignals, in insertion order
dedupRows(rows, dedup) ==
    IF rows = <<>> THEN dedup
    ELSE LET row  == Head(rows)
             same == {i \in DOMAIN dedup :
                         /\ dedup[i].category = row.category
                         /\ dedup[i].key = row.key
                         /\ toLowerCase(dedup[i].value) = toLowerCase(row.value)}
         IN  IF same = {} THEN dedupRows(Tail(rows), Append(dedup, row))
             ELSE LET i == CHOOSE n \in same : TRUE
                  IN  IF row.confidence > dedup[i].confidence
                      THEN dedupRows(Tail(rows), [dedup EXCEPT ![i] = row])
                      ELSE dedupRows(Tail(rows), dedup)

\* an insert under a record id that changes with the run
insertMemoryRecord(table, input) ==
    table \cup {[input EXCEPT !.record_id = input.record_id \o "_" \o input.source_run_id]}

\* INSERT INTO memory_records ... ON CONFLICT(record_id) DO UPDATE SET
\* value, confidence, source_run_id, updated_at
upsertMemoryRecord(table, input) ==
    IF \E row \in table : row.record_id = input.record_id
    THEN LET row == CHOOSE r \in table : r.record_id = input.record_id
         IN  (table \ {row}) \cup
                 {[row EXCEPT !.value = input.value,
                              !.confidence = input.confidence,
                              !.source_run_id = input.source_run_id]}
    ELSE table \cup {input}

RECURSIVE upsertRows(_, _, _, _)
\* the second for-loop of ingestMemorySignals
upsertRows(table, rows, userId, runId) ==
    IF rows = <<>> THEN table
    ELSE LET row == Head(rows)
             input == [record_id |-> deterministicMemoryId(userId, row.category, row.key),
                       user_id |-> userId,
                       category |-> row.category,
                       key |-> row.key,
                       value |-> row.value,
                       confidence |-> row.confidence,
                       source_run_id |-> runId]
         IN  upsertRows(upsertMemoryRecord(table, input), Tail(rows), userId, runId)

\* the table after ingestMemorySignals
ingestMemorySignals(table, userId, runId, objective, responseText) ==
    LET rawRows == MemoryRowsOf[objective] \o MemoryRowsOf[responseText]
    IN  upsertRows(table, dedupRows(rawRows, <<>>), userId, runId)

\* repeated: the call had the arguments of the call before it
NoIngest ==
    [userId |-> "none", objective |-> <<>>, responseText |-> <<>>, repeated |-> FALSE]

MemoryInit ==
    /\ memoryRecords = {}
    /\ lastIngest = NoIngest

\* executeHarness ingests the objective and the output of a run
IngestMemorySignals(userId, runId, objective, responseText) ==
    /\ memoryRecords' = ingestMemorySignals(memoryRecords, userId, runId, objective,
                                            responseText)
    /\ lastIngest' = [userId |-> userId, objective |-> objective,
                      responseText |-> responseText,
                      repeated |-> /\ lastIngest.userId = userId
                                   /\ lastIngest.objective = objective
                                   /\ lastIngest.responseText = responseText]
    /\ UNCHANGED notMemoryVars

NextMemory ==
    \E userId \in MemoryUsers, runId \in RunIds, exchange \in Exchanges :
        IngestMemorySignals(userId, runId, exchange.objective, exchange.responseText)

(***************************************************************************)
(* Durable pending-message store (channels/pending-store.ts)               *)
(***************************************************************************)
\* DEFAULT_TTL_MS = 10 * 60 * 1000
DEFAULT_TTL_MS == 600000

\* the milliseconds the clock of the store's model runs
MaxPendingClock == 2

MessageIds == {"m1", "m2"}

PendingChannels == {"whatsapp", "telegram"}

\* input.ttlMs: absent (0), or a number of milliseconds
Ttls == {0, 1}

\* input.chatRef and input.replyRef: both absent ("") or both given
Refs == {[chatRef |-> "", replyRef |-> ""], [chatRef |-> "123@c.us", replyRef |-> "abc"]}

Null == [found |-> FALSE]

NoPendingOp == [op |-> "none", channel |-> "", removed |-> 0, result |-> Null]

PendingInit ==
    /\ pendingNow = 0
    /\ pendingStore = {}
    /\ pendingOp = NoPendingOp

\* a || b of JavaScript on strings
OrElse(a, b) == IF a # "" THEN a ELSE b

\* INSERT INTO channel_pending_messages ... ON CONFLICT(message_id) DO
\* UPDATE SET channel, sender, sender_id, chat_ref, reply_ref, expires_at
upsertChannelPendingMessage(store, input) ==
    {row \in store : row.message_id # input.messageId} \cup
        {[message_id |-> input.messageId,
          channel |-> input.channel,
          sender |-> input.sender,
          sender_id |-> input.senderId,
          chat_ref |-> OrElse(input.chatRef, ""),
          reply_ref |-> OrElse(input.replyRef, ""),
          expires_at |-> input.expiresAt]}

\* SELECT * FROM channel_pending_messages WHERE message_id = ... LIMIT 1
getChannelPendingMessage(store, messageId) ==
    {row \in store : row.message_id = messageId}

deleteChannelPendingMessage(store, messageId) ==
    {row \in store : row.message_id # messageId}

\* a purge whose cutoff lies a millisecond ahead
purgedRowsEarly(store, channel, olderThanMs, t) ==
    {row \in store : row.expires_at <= t + 1 /\ (channel # "" => row.channel = channel)}

\* the rows the DELETE of purgeExpiredChannelPendingMessages removes
purgedRows(store, channel, olderThanMs, t) ==
    LET cutoff == t - (IF olderThanMs > 0 THEN olderThanMs ELSE 0)
    IN  {row \in store :
            /\ row.expires_at <= cutoff
            /\ channel # "" => row.channel = channel}

purgeExpiredChannelPendingMessages(store, channel, olderThanMs, t) ==
    [store |-> store \ purgedRows(store, channel, olderThanMs, t),
     count |-> Cardinality(purgedRows(store, channel, olderThanMs, t))]

\* the store after rememberPendingMessage at time t
rememberPendingMessage(store, input, t) ==
    LET given == IF input.ttlMs # 0 THEN input.ttlMs ELSE DEFAULT_TTL_MS
        ttlMs == IF given > 1 THEN given ELSE 1
    IN  upsertChannelPendingMessage(store,
            [messageId |-> input.messageId,
             channel |-> input.channel,
             sender |-> input.sender,
             senderId |-> input.senderId,
             chatRef |-> OrElse(input.chatRef, input.senderId),
             replyRef |-> OrElse(input.replyRef, ""),
             expiresAt |-> t + ttlMs])

\* a read that does not compare the channel of the row
readAnyChannel(store, channel, messageId, t) ==
    LET rows == getChannelPendingMessage(store, messageId)
    IN  IF rows = {} THEN [result |-> Null, store |-> store]
        ELSE LET row == CHOOSE r \in rows : TRUE
             IN  IF row.expires_at <= t
                 THEN [result |-> Null,
                       store |-> deleteChannelPendingMessage(store, messageId)]
                 ELSE [result |-> [found |-> TRUE,
                                   channel |-> row.channel,
                                   sender |-> row.sender,
                                   senderId |-> row.sender_id,
                                   chatRef |-> OrElse(row.chat_ref, row.sender_id),
                                   replyRef |-> OrElse(row.reply_ref, "")],
                       store |-> store]

\* readPendingMessage at time t: what it returns and the store it leaves
readPendingMessage(store, channel, messageId, t) ==
    LET rows == getChannelPendingMessage(store, messageId)
    IN  IF rows = {} THEN [result |-> Null, store |-> store]
        ELSE LET row == CHOOSE r \in rows : TRUE
             IN  IF row.channel # channel THEN [result |-> Null, store |-> store]
                 ELSE IF row.expires_at <= t
                 THEN [result |-> Null,
                       store |-> deleteChannelPendingMessage(store, messageId)]
                 ELSE [result |-> [found |-> TRUE,
                                   channel |-> row.channel,
                                   sender |-> row.sender,
                                   senderId |-> row.sender_id,
                                   chatRef |-> OrElse(row.chat_ref, row.sender_id),
                                   replyRef |-> OrElse(row.reply_ref, "")],
                       store |-> store]

\* a millisecond passes
PendingTick ==
    /\ pendingNow < MaxPendingClock
    /\ pendingNow' = pendingNow + 1
    /\ UNCHANGED <<pendingStore, pendingOp>>
    /\ UNCHANGED notPendingVars

\* the adapter remembers whom the answer to a message goes to
PendingInput(messageId, channel, refs, ttlMs) ==
    [messageId |-> messageId, channel |-> channel, sender |-> "tester",
     senderId |-> "123", chatRef |-> refs.chatRef, replyRef |-> refs.replyRef,
     ttlMs |-> ttlMs]

RememberPendingMessage(messageId, channel, refs, ttlMs) ==
    LET input == PendingInput(messageId, channel, refs, ttlMs)
    IN  /\ pendingStore' = rememberPendingMessage(pendingStore, input, pendingNow)
        /\ pendingOp' = [op |-> "remember", channel |-> channel, removed |-> 0,
                         result |-> Null]
        /\ UNCHANGED pendingNow
        /\ UNCHANGED notPendingVars

ReadPendingMessage(channel, messageId) ==
    LET read == readPendingMessage(pendingStore, channel, messageId, pendingNow)
    IN  /\ pendingStore' = read.store
        /\ pendingOp' = [op |-> "read", channel |-> channel,
                         removed |-> Cardinality(pendingStore \ read.store),
                         result |-> read.result]
        /\ UNCHANGED pendingNow
        /\ UNCHANGED notPendingVars

ClearPendingMessage(messageId) ==
    /\ pendingStore' = deleteChannelPendingMessage(pendingStore, messageId)
    /\ pendingOp' = [op |-> "clear", channel |-> "", removed |-> 0, result |-> Null]
    /\ UNCHANGED pendingNow
    /\ UNCHANGED notPendingVars

\* cleanupExpiredPendingMessages(channel): purge with olderThanMs = 0
CleanupExpiredPendingMessages(channel) ==
    LET purged == purgeExpiredChannelPendingMessages(pendingStore, channel, 0, pendingNow)
    IN  /\ pendingStore' = purged.store
        /\ pendingOp' = [op |-> "cleanup", channel |-> channel, removed |-> purged.count,
                         result |-> Null]
        /\ UNCHANGED pendingNow
        /\ UNCHANGED notPendingVars

NextPending ==
    \/ PendingTick
    \/ \E messageId \in MessageIds, channel \in PendingChannels, refs \in Refs,
          ttlMs \in Ttls :
          RememberPendingMessage(messageId, channel, refs, ttlMs)
    \/ \E channel \in PendingChannels, messageId \in MessageIds :
          ReadPendingMessage(channel, messageId)
    \/ \E messageId \in MessageIds : ClearPendingMessage(messageId)
    \/ \E channel \in PendingChannels \cup {""} : CleanupExpiredPendingMessages(channel)

(***************************************************************************)
(* Long responses (queue-processor.ts): the envelopes processMessage and   *)
(* completeConversation write to the outgoing queue.  A text is its        *)
(* length and what it holds.                                               *)
(***************************************************************************)
LONG_RESPONSE_THRESHOLD == 4000

\* the envelopes the model writes, and the milliseconds it lets pass
MaxOutbox == 2

MaxSpillClock == 1

\* '\n\n_(Full response attached as file)_'
SpillNote ==
    <<"\n", "\n", "_", "(", "F", "u", "l", "l", " ", "r", "e", "s", "p", "o", "n", "s",
      "e", " ", "a", "t", "t", "a", "c", "h", "e", "d", " ", "a", "s", " ", "f", "i",
      "l", "e", ")", "_">>

\* "Done! Here's what happened:\n\n"
DonePrefix ==
    <<"D", "o", "n", "e", "!", " ", "H", "e", "r", "e", "'", "s", " ", "w", "h", "a",
      "t", " ", "h", "a", "p", "p", "e", "n", "e", "d", ":", "\n", "\n">>

\* '\n\n------\n\n'
StepSeparator == <<"\n", "\n", "-", "-", "-", "-", "-", "-", "\n", "\n">>

\* the trimmed texts of the model: agent responses and user messages, short,
\* just under, at and over the threshold
Responses ==
    {[length |-> 3990, holds |-> <<"r1">>],
     [length |-> 4000, holds |-> <<"r2">>],
     [length |-> 4001, holds |-> <<"r3">>]}

\* literal + text, text.substring(0, n), and text + literal
Prepend(literal, text) ==
    [length |-> Len(literal) + text.length, holds |-> <<literal>> \o text.holds]

Substring(text, n) ==
    IF text.length <= n THEN text
    ELSE [length |-> n, holds |-> <<"substring">> \o text.holds]

Concat(text, literal) ==
    [length |-> text.length + Len(literal), holds |-> text.holds \o <<literal>>]

\* handleLongResponse(response, existingFiles) at time t: the message, the
\* files, and the file it writes into FILES_DIR
handleLongResponse(response, existingFiles, t) ==
    IF response.length <= LONG_RESPONSE_THRESHOLD
    THEN [message |-> response, files |-> existingFiles, written |-> {}]
    ELSE LET filePath == [name |-> "response", at |-> t, ext |-> ".md"]
         IN  [message |-> Concat(Substring(response, LONG_RESPONSE_THRESHOLD), SpillNote),
              files |-> Append(existingFiles, filePath),
              written |-> {filePath}]

\* the aggregate of completeConversation: the response itself, or the
\* responses under '@agent: ' joined by the separator
RECURSIVE JoinSteps(_)
JoinSteps(steps) ==
    LET step == Prepend(<<"@", Head(steps).agentId, ":", " ">>, Head(steps).response)
    IN  IF Len(steps) = 1 THEN step
        ELSE LET rest == JoinSteps(Tail(steps))
             IN  [length |-> step.length + Len(StepSeparator) + rest.length,
                  holds |-> step.holds \o <<StepSeparator>> \o rest.holds]

Aggregate(steps) ==
    IF Len(steps) = 1 THEN steps[1].response ELSE JoinSteps(steps)

\* the conversations the model completes: one response, or two
Conversations ==
    {<<[agentId |-> "a", response |-> r]>> : r \in Responses} \cup
    {<<[agentId |-> "a", response |-> r[1]], [agentId |-> "b", response |-> r[2]]>> :
        r \in [1..2 -> {x \in Responses : x.length < LONG_RESPONSE_THRESHOLD}]}

SpillInit ==
    /\ spillNow = 0
    /\ outbox = <<>>
    /\ filesDir = << >>

\* fs.writeFileSync(filePath, response) for the file handleLongResponse names
WriteSpill(handled, response) ==
    [path \in DOMAIN filesDir \cup handled.written |->
        IF path \in handled.written THEN response ELSE filesDir[path]]

\* the envelope written for finalResponse (the field response is not in the
\* file: it records the text the envelope answers with)
WriteEnvelope(path, finalResponse, handled) ==
    /\ Len(outbox) < MaxOutbox
    /\ outbox' = Append(outbox, [path |-> path, message |-> handled.message,
                                 files |-> handled.files, response |-> finalResponse])
    /\ filesDir' = WriteSpill(handled, finalResponse)
    /\ UNCHANGED spillNow
    /\ UNCHANGED notSpillVars

\* a millisecond passes
SpillTick ==
    /\ spillNow < MaxSpillClock
    /\ spillNow' = spillNow + 1
    /\ UNCHANGED <<outbox, filesDir>>
    /\ UNCHANGED notSpillVars

\* processMessage without a team: the completion prefix, then the spill
RespondToUser(response, prefixed, outboundFiles) ==
    LET finalResponse == IF prefixed THEN Prepend(DonePrefix, response) ELSE response
    IN  WriteEnvelope("agent", finalResponse,
                      handleLongResponse(finalResponse, outboundFiles, spillNow))

\* completeConversation: the aggregate, then the spill
CompleteConversationResponse(steps, outboundFiles) ==
    LET finalResponse == Aggregate(steps)
    IN  WriteEnvelope("team", finalResponse,
                      handleLongResponse(finalResponse, outboundFiles, spillNow))

\* processMessage for a message that mentions several agents: the envelope
\* carries routing.message, the sender's message, as it is
RespondEasterEgg(message) ==
    WriteEnvelope("easter egg", message, [message |-> message, files |-> <<>>, written |-> {}])

NextSpill ==
    \/ SpillTick
    \/ \E response \in Responses, prefixed \in BOOLEAN,
          outboundFiles \in {<<>>, <<[name |-> "report", at |-> 0, ext |-> ".pdf"]>>} :
          RespondToUser(response, prefixed, outboundFiles)
    \/ \E steps \in Conversations : CompleteConversationResponse(steps, <<>>)
    \/ \E message \in Responses : RespondEasterEgg(message)

(***************************************************************************)
(* settings.json (lib/config.ts): saveSettings and getSettings as the      *)
(* system calls they make, in the processes that call them                 *)
(***************************************************************************)
\* the processes that write settings
SettingsWriters == {"queue-processor", "channel", "cli"}

\* the inodes the model creates
MaxInodes == 3

\* JSON.stringify(next, null, 2) of the settings the model saves: texts of
\* different lengths
SettingsTexts == {<<"{", "}">>, <<"{", "a", "}">>}

\* `${SETTINGS_FILE}.tmp`: the same path in every process
TmpOf(proc) == "settings.json.tmp"

\* the paths of the directory; 0 stands for no entry
SettingsPaths == {"settings.json"} \cup {TmpOf(proc) : proc \in SettingsWriters}

NoSave == [pc |-> "idle", fd |-> 0, text |-> <<>>]

SettingsInit ==
    /\ inodes = <<<<"{", "}">>>>
    /\ dir = [p \in SettingsPaths |-> IF p = "settings.json" THEN 1 ELSE 0]
    /\ savePc = [proc \in SettingsWriters |-> NoSave]
    /\ readerSeen = <<"{", "}">>

\* write(fd, text) at offset 0 of a file that holds old
WriteAt0(old, text) ==
    IF Len(old) <= Len(text) THEN text
    ELSE text \o SubSeq(old, Len(text) + 1, Len(old))

\* saveSettings, writeFileSync(tmp, ...): open(tmp, 'w') creates the file
\* or truncates the one that is there
SaveOpen(proc, text) ==
    /\ savePc[proc].pc = "idle"
    /\ IF dir[TmpOf(proc)] = 0
       THEN /\ Len(inodes) < MaxInodes
            /\ inodes' = Append(inodes, <<>>)
            /\ dir' = [dir EXCEPT ![TmpOf(proc)] = Len(inodes) + 1]
            /\ savePc' = [savePc EXCEPT ![proc] =
                            [pc |-> "opened", fd |-> Len(inodes) + 1, text |-> text]]
       ELSE /\ inodes' = [inodes EXCEPT ![dir[TmpOf(proc)]] = <<>>]
            /\ savePc' = [savePc EXCEPT ![proc] =
                            [pc |-> "opened", fd |-> dir[TmpOf(proc)], text |-> text]]
            /\ UNCHANGED dir
    /\ UNCHANGED readerSeen
    /\ UNCHANGED notSettingsVars

\* saveSettings, writeFileSync(tmp, ...): write(fd, text) and close(fd)
SaveWrite(proc) ==
    /\ savePc[proc].pc = "opened"
    /\ inodes' = [inodes EXCEPT ![savePc[proc].fd] = WriteAt0(@, savePc[proc].text)]
    /\ savePc' = [savePc EXCEPT ![proc].pc = "written"]
    /\ UNCHANGED <<dir, readerSeen>>
    /\ UNCHANGED notSettingsVars

\* saveSettings, renameSync(tmp, SETTINGS_FILE); it throws when tmp is gone
SaveRename(proc) ==
    /\ savePc[proc].pc = "written"
    /\ dir' = IF dir[TmpOf(proc)] = 0 THEN dir
              ELSE [dir EXCEPT !["settings.json"] = dir[TmpOf(proc)],
                               ![TmpOf(proc)] = 0]
    /\ savePc' = [savePc EXCEPT ![proc] = NoSave]
    /\ UNCHANGED <<inodes, readerSeen>>
    /\ UNCHANGED notSettingsVars

\* getSettings: readFileSync(SETTINGS_FILE, 'utf8')
GetSettings ==
    /\ readerSeen' = inodes[dir["settings.json"]]
    /\ UNCHANGED <<inodes, dir, savePc>>
    /\ UNCHANGED notSettingsVars

NextSettings ==
    \/ \E proc \in SettingsWriters, text \in SettingsTexts : SaveOpen(proc, text)
    \/ \E proc \in SettingsWriters : SaveWrite(proc)
    \/ \E proc \in SettingsWriters : SaveRename(proc)
    \/ GetSettings

(***************************************************************************)
(* Team conversation counters (queue-processor.ts, processMessage 501-566) *)
(***************************************************************************)
\* the [@teammate: ...] tags of a response: any set of the team's agents
TeamMentionSets == SUBSET Team.agents

NoBranches == [agentId \in Team.agents |-> 0]

\* the internal messages of the conversation the model lets wait at once
MaxBranches == 3

\* the number of internal messages waiting
Waiting(waiting) == waiting["a"] + waiting["b"] + waiting["c"]

\* the Conversation record of a new conversation
NewConversation ==
    [pending |-> 1, totalMessages |-> 0, maxMessages |-> MAX_CONVERSATION_MESSAGES,
     state |-> "open"]

TeamInit ==
    /\ external = TRUE
    /\ teamConv = [NewConversation EXCEPT !.pending = 0, !.state = "none"]
    /\ branches = NoBranches

\* conv.totalMessages++
recordResponse(conv) == [conv EXCEPT !.totalMessages = @ + 1]

\* a cap test that lets every mention through
handsOffAlways(conv, teammateMentions) == teammateMentions # {}

\* teammateMentions.length > 0 && conv.totalMessages < conv.maxMessages
handsOff(conv, teammateMentions) ==
    teammateMentions # {} /\ conv.totalMessages < conv.maxMessages

\* conv.pending += teammateMentions.length
countMentions(conv, teammateMentions) ==
    [conv EXCEPT !.pending = @ + Cardinality(teammateMentions)]

\* a branch that is never counted as done
branchNotDone(conv) == conv

\* conv.pending--
branchDone(conv) == [conv EXCEPT !.pending = @ - 1]

\* the team branch of processMessage for the response of agentId, with the
\* internal messages waiting being those of waiting
TeamBranch(conv, agentId, mentions, waiting) ==
    LET recorded == recordResponse(conv)
        teammateMentions == extractTeammateMentions(mentions, agentId)
        enqueue  == handsOff(recorded, teammateMentions)
        counted  == IF enqueue THEN countMentions(recorded, teammateMentions)
                    ELSE recorded
        done     == branchDone(counted)
        enqueued == IF enqueue THEN teammateMentions ELSE {}
    IN  /\ Waiting(waiting) + Cardinality(enqueued) <= MaxBranches
        /\ branches' = [x \in Team.agents |->
                           waiting[x] + (IF x \in enqueued THEN 1 ELSE 0)]
        /\ teamConv' = IF done.pending = 0 THEN [done EXCEPT !.state = "completed"]
                       ELSE done

\* processMessage of the user's message to the team leader: a new conversation
HandleExternal(mentions) ==
    /\ external
    /\ external' = FALSE
    /\ TeamBranch(NewConversation, Team.leader_agent, mentions, branches)
    /\ UNCHANGED notTeamVars

\* processMessage of an internal message of the conversation
HandleInternal(agentId, mentions) ==
    /\ teamConv.state = "open"
    /\ branches[agentId] > 0
    /\ TeamBranch(teamConv, agentId, mentions, [branches EXCEPT ![agentId] = @ - 1])
    /\ UNCHANGED external
    /\ UNCHANGED notTeamVars

NextTeam ==
    \/ \E mentions \in TeamMentionSets : HandleExternal(mentions)
    \/ \E agentId \in Team.agents, mentions \in TeamMentionSets :
          HandleInternal(agentId, mentions)

\* every branch handler terminates without throwing
TeamFairness ==
    /\ WF_vars(\E mentions \in TeamMentionSets : HandleExternal(mentions))
    /\ \A agentId \in Team.agents :
          WF_vars(\E mentions \in TeamMentionSets : HandleInternal(agentId, mentions))

(***************************************************************************)
(* Blocked-run outreach (proactive-notifier.ts, repository.ts)             *)
(***************************************************************************)
\* 10 * 60 * 1000
BLOCKED_OUTREACH_MIN_AGE_MS == 600000

\* 4 * 60 * 60 * 1000
BLOCKED_OUTREACH_MIN_INTERVAL_MS == 14400000

BLOCKED_OUTREACH_MAX_ATTEMPTS == 3

\* 24 * 60 * 60 * 1000
BLOCKED_OUTREACH_MAX_AGE_MS == 86400000

\* the run ids of the model: two runs, so that two can run at once
OutreachRunIds == {1, 2}

\* the times the clock of the model is moved
MaxElapses == 4

\* the (channel, sender_id) pairs of the model: one channel, two users
Senders == {"u1", "u2"}

\* the milliseconds that pass between two steps
Elapsed ==
    {BLOCKED_OUTREACH_MIN_AGE_MS, BLOCKED_OUTREACH_MIN_INTERVAL_MS,
     BLOCKED_OUTREACH_MAX_AGE_MS}

BlockedStatuses == {"needs_input", "awaiting_approval"}

OutreachInit ==
    /\ oNow = 1
    /\ elapses = 0
    /\ oRuns = <<>>
    /\ oEvents = <<>>

\* Date.now() moves on; the time before the first run is left out
Elapse(ms) ==
    /\ oRuns # <<>>
    /\ elapses < MaxElapses
    /\ elapses' = elapses + 1
    /\ oNow' = oNow + ms
    /\ UNCHANGED <<oRuns, oEvents>>
    /\ UNCHANGED notOutreachVars

\* supersedeNeedsInputRuns(channel, senderId, Date.now()) on the table
supersedeBlocked(runs, senderId) ==
    [r \in DOMAIN runs |->
        IF /\ runs[r].sender_id = senderId
           /\ runs[r].status = "needs_input"
           /\ runs[r].updated_at < oNow
        THEN [runs[r] EXCEPT !.status = "superseded", !.updated_at = oNow]
        ELSE runs[r]]

\* processMessage up to createTaskRun in executeHarness: the handler of an
\* external message supersedes the sender's needs_input runs first, the
\* handler of an internal message (a team branch) does not
StartRun(senderId, internal) ==
    /\ Len(oRuns) + 1 \in OutreachRunIds
    /\ oRuns' = Append(IF internal THEN oRuns ELSE supersedeBlocked(oRuns, senderId),
                       [sender_id |-> senderId, status |-> "in_progress",
                        created_at |-> oNow, updated_at |-> oNow])
    /\ oEvents' = Append(oEvents, <<>>)
    /\ UNCHANGED <<oNow, elapses>>
    /\ UNCHANGED notOutreachVars

\* the last updateTaskRun of executeHarness
FinishRun(r, status) ==
    /\ r \in DOMAIN oRuns
    /\ oRuns[r].status = "in_progress"
    /\ oRuns' = [oRuns EXCEPT ![r].status = status, ![r].updated_at = oNow]
    /\ UNCHANGED <<oNow, elapses, oEvents>>
    /\ UNCHANGED notOutreachVars

\* the run ids of the rows listBlockedRunsForOutreach selects
listBlockedRunsForOutreach(minAgeMs) ==
    {r \in DOMAIN oRuns :
        /\ oRuns[r].status \in BlockedStatuses
        /\ oRuns[r].sender_id # ""
        /\ oRuns[r].updated_at <= oNow - minAgeMs
        /\ ~\E newer \in DOMAIN oRuns :
              /\ oRuns[newer].sender_id = oRuns[r].sender_id
              /\ newer # r
              /\ oRuns[newer].created_at > oRuns[r].updated_at}

getTaskEventCount(r) == Len(oEvents[r])

\* MAX(created_at) of the run's proactive_outreach events, 0 for none
getLastTaskEventAt(r) == IF oEvents[r] = <<>> THEN 0 ELSE oEvents[r][Len(oEvents[r])]

\* a loop body that does not count the earlier events
OutreachDueUncounted(r) ==
    /\ ~(oNow - oRuns[r].updated_at > BLOCKED_OUTREACH_MAX_AGE_MS)
    /\ ~(getLastTaskEventAt(r) > 0
            /\ oNow - getLastTaskEventAt(r) < BLOCKED_OUTREACH_MIN_INTERVAL_MS)

\* the body of the loop of queueBlockedRunOutreach reaches appendTaskEvent
OutreachDue(r) ==
    /\ ~(oNow - oRuns[r].updated_at > BLOCKED_OUTREACH_MAX_AGE_MS)
    /\ ~(getTaskEventCount(r) >= BLOCKED_OUTREACH_MAX_ATTEMPTS)
    /\ ~(getLastTaskEventAt(r) > 0
            /\ oNow - getLastTaskEventAt(r) < BLOCKED_OUTREACH_MIN_INTERVAL_MS)

\* the runs a scheduler tick queues a reminder for
Reminded ==
    {r \in listBlockedRunsForOutreach(BLOCKED_OUTREACH_MIN_AGE_MS) : OutreachDue(r)}

\* queueBlockedRunOutreach in a tick of the scheduler: each reminder is
\* queued together with its proactive_outreach event
QueueBlockedRunOutreach ==
    /\ Reminded # {}
    /\ oEvents' = [r \in DOMAIN oEvents |->
                      IF r \in Reminded THEN Append(oEvents[r], oNow) ELSE oEvents[r]]
    /\ UNCHANGED <<oNow, elapses, oRuns>>
    /\ UNCHANGED notOutreachVars

NextOutreach ==
    \/ \E ms \in Elapsed : Elapse(ms)
    \/ \E senderId \in Senders, internal \in BOOLEAN : StartRun(senderId, internal)
    \/ \E r \in OutreachRunIds, status \in BlockedStatuses \cup {"completed"} :
          FinishRun(r, status)
    \/ QueueBlockedRunOutreach

(***************************************************************************)
(* Codex output parsing (lib/invoke.ts, parseCodexResponse)                *)
(***************************************************************************)
\* the lines of output the model lets codex write
MaxCodexLines == 3

\* a field that is missing or is not a string
NotString == <<"undefined">>

\* a line that JSON.parse rejects
NotJson ==
    [json |-> FALSE, shape |-> "", type |-> "", message |-> NotString, text |-> NotString]

\* {"msg": {"type": type, "message": message, "text": text}}
CurrentLine(type, message, text) ==
    [json |-> TRUE, shape |-> "msg", type |-> type, message |-> message, text |-> text]

\* {"type": "item.completed", "item": {"type": type, "text": text}}
ItemCompleted(type, text) ==
    [json |-> TRUE, shape |-> "item.completed", type |-> type, message |-> NotString,
     text |-> text]

\* {"type": type, "message": message}
LegacyLine(type, message) ==
    [json |-> TRUE, shape |-> "legacy", type |-> type, message |-> message,
     text |-> NotString]

CodexLines ==
    {CurrentLine("agent_message", <<"o", "k">>, NotString),
     CurrentLine("agent_message", NotString, <<" ", "n", "o">>),
     CurrentLine("agent_message", <<" ">>, NotString),
     CurrentLine("error", <<"e", "1", " ">>, NotString),
     CurrentLine("error", NotString, <<"e", "0">>),
     CurrentLine("token_count", NotString, NotString),
     ItemCompleted("agent_message", <<"o", "l", "d">>),
     LegacyLine("error", <<"e", "2">>),
     NotJson}

NoCodexResult == [status |-> "none", text |-> <<>>]

CodexInit ==
    /\ codexOutput = <<>>
    /\ codexResult = NoCodexResult

\* the text an agent_message line carries, and the empty text for any other
\* line
AgentText(line) ==
    IF ~line.json THEN <<>>
    ELSE IF line.shape = "msg" /\ line.type = "agent_message"
    THEN IF line.message # NotString THEN line.message
         ELSE IF line.text # NotString THEN line.text ELSE <<>>
    ELSE IF line.shape = "item.completed" /\ line.type = "agent_message"
    THEN IF line.text # NotString THEN line.text
         ELSE IF line.message # NotString THEN line.message ELSE <<>>
    ELSE <<>>

\* the text an error line carries, trimmed, and the empty text for any other
\* line
ErrorText(line) ==
    IF ~line.json THEN <<>>
    ELSE IF line.shape \in {"msg", "legacy"} /\ line.type = "error"
    THEN IF line.message # NotString THEN trim(line.message) ELSE <<>>
    ELSE <<>>

RECURSIVE parseLines(_, _, _)
\* the for-loop of parseCodexResponse: response and errors after the lines
parseLines(lines, response, errors) ==
    IF lines = <<>> THEN [response |-> response, errors |-> errors]
    ELSE LET line == Head(lines)
         IN  IF trim(AgentText(line)) # <<>>
             THEN parseLines(Tail(lines), trim(AgentText(line)), errors)
             ELSE IF ErrorText(line) # <<>>
             THEN parseLines(Tail(lines), response, Append(errors, ErrorText(line)))
             ELSE parseLines(Tail(lines), response, errors)

\* parseCodexResponse: the string returned or the Error thrown
parseCodexResponse(lines) ==
    LET parsed == parseLines(lines, <<>>, <<>>)
    IN  IF parsed.response # <<>>
        THEN [status |-> "returned", text |-> parsed.response]
        ELSE IF parsed.errors # <<>>
        THEN [status |-> "thrown", text |-> parsed.errors[Len(parsed.errors)]]
        ELSE [status |-> "thrown", text |-> <<"n", "o", " ", "r", "e", "s", "p", "o", "n", "s", "e">>]

\* codex writes a line to its standard output
CodexWrites(line) ==
    /\ codexResult = NoCodexResult
    /\ Len(codexOutput) < MaxCodexLines
    /\ codexOutput' = Append(codexOutput, line)
    /\ UNCHANGED codexResult
    /\ UNCHANGED notCodexVars

\* codex exits with code 0 and invokeAgent parses what it wrote
CodexExits ==
    /\ codexResult = NoCodexResult
    /\ codexResult' = parseCodexResponse(codexOutput)
    /\ UNCHANGED codexOutput
    /\ UNCHANGED notCodexVars

NextCodex ==
    \/ \E line \in CodexLines : CodexWrites(line)
    \/ CodexExits

(***************************************************************************)
(* Verifier (verifyCandidate of the harness orchestrator)                  *)
(***************************************************************************)
\* a candidate is a string; a reply of runOneShotPrompt is either a thrown
\* error or a text, given by how the text carries its JSON (bare, inside a
\* code fence, embedded in prose, or not at all) and by what that JSON is
Candidates ==
    {<<>>,
     <<" ", "\n", " ">>,
     <<" ", "o", "k", " ">>,
     <<" ", "s", "e", "v", "e", "n", "c", "h", " ">>,
     <<"e", "i", "g", "h", "t", "c", "h", "s">>,
     <<"S", "o", "r", "r", "y", ",", " ", "I", " ", "e", "n", "c", "o", "u",
       "n", "t", "e", "r", "e", "d", " ", "a", "n", " ", "e", "r", "r", "o",
       "r">>,
     <<"s", "o", "r", "r", "y", " ", "\n", "i", " ", "e", "n", "c", "o", "u",
       "n", "t", "e", "r", "e", "d", " ", "a", "n", " ", "e", "r", "r", "o",
       "r", "!">>,
     <<"s", "o", "r", "r", "y", "I", " ", "e", "n", "c", "o", "u",
       "n", "t", "e", "r", "e", "d", " ", "a", "n", " ", "e", "r", "r", "o",
       "r">>}

ValidOutcomes == {"pass", "minor_fix", "critical_fail", "abstain"}

\* what JSON.parse can be handed: an object with an outcome field (valid,
\* unknown or absent), a scalar, null, or text in braces that is no JSON
JsonObjects ==
    {[kind |-> "object", outcome |-> o] :
        o \in ValidOutcomes \cup {"fail", ""}}

JsonBodies ==
    JsonObjects \cup
    {[kind |-> "null", outcome |-> ""],
     [kind |-> "string", outcome |-> "critical_fail"],
     [kind |-> "broken", outcome |-> "critical_fail"]}

NoBody == [kind |-> "none", outcome |-> ""]

NoReply == [throws |-> FALSE, form |-> "none", body |-> NoBody]

VerifierReplies ==
    {[throws |-> TRUE, form |-> "none", body |-> NoBody],
     [throws |-> FALSE, form |-> "prose", body |-> NoBody]}
    \cup {[throws |-> FALSE, form |-> f, body |-> b] :
            f \in {"bare", "fenced", "embedded"}, b \in JsonBodies}

VerifierInit ==
    /\ vfCandidate = <<>>
    /\ vfReply = NoReply
    /\ vfCalled = FALSE

\* /sorry,?\s+i encountered an error/i.test(candidate)
ErrorPlaceholder(candidate) ==
    LET s == toLowerCase(candidate)
        sorry == <<"s", "o", "r", "r", "y">>
        rest == <<"i", " ", "e", "n", "c", "o", "u", "n", "t", "e", "r", "e",
                  "d", " ", "a", "n", " ", "e", "r", "r", "o", "r">>
    IN  \E i \in 1..Len(s) :
            /\ MatchAt(s, i, sorry)
            /\ LET j == IF MatchAt(s, i + 5, <<",">>) THEN i + 6 ELSE i + 5
                   k == SkipSpace(s, j)
               IN  k > j /\ MatchAt(s, k, rest)

\* the two tests before the prompt is built
FastPath(candidate) ==
    Len(trim(candidate)) < 8 \/ ErrorPlaceholder(candidate)

\* JSON.parse of a body: it throws on text that is no JSON
JsonParseThrows(body) == body.kind = "broken"

\* the inner try of verifyCandidate with its two fallbacks:
\* [threw, parsed], parsed being NoBody for null
parseVerifierOutput(reply) ==
    IF reply.form = "bare" /\ ~JsonParseThrows(reply.body)
    THEN [threw |-> FALSE, parsed |-> reply.body]
    ELSE IF reply.form = "fenced"
    THEN IF JsonParseThrows(reply.body)
         THEN [threw |-> TRUE, parsed |-> NoBody]
         ELSE [threw |-> FALSE, parsed |-> reply.body]
    ELSE IF reply.form \in {"bare", "embedded"}
            /\ reply.body.kind \in {"object", "broken"}
    THEN IF JsonParseThrows(reply.body)
         THEN [threw |-> TRUE, parsed |-> NoBody]
         ELSE [threw |-> FALSE, parsed |-> reply.body]
    ELSE [threw |-> FALSE, parsed |-> NoBody]

\* verifyCandidate with a catch that keeps the failure
verifyCandidateFailClosed(candidate, reply) ==
    IF FastPath(candidate)
    THEN [outcome |-> "critical_fail", called |-> FALSE]
    ELSE IF reply.throws
    THEN [outcome |-> "critical_fail", called |-> TRUE]
    ELSE LET out == parseVerifierOutput(reply) IN
         IF out.threw THEN [outcome |-> "critical_fail", called |-> TRUE]
         ELSE IF out.parsed.kind # "object"
         THEN [outcome |-> "critical_fail", called |-> TRUE]
         ELSE IF out.parsed.outcome \in ValidOutcomes
         THEN [outcome |-> out.parsed.outcome, called |-> TRUE]
         ELSE [outcome |-> "pass", called |-> TRUE]

\* verifyCandidate(ctx, candidate): the outcome of the verdict, and whether
\* runOneShotPrompt was called
verifyCandidate(candidate, reply) ==
    IF FastPath(candidate)
    THEN [outcome |-> "critical_fail", called |-> FALSE]
    ELSE IF reply.throws
    THEN [outcome |-> "pass", called |-> TRUE]
    ELSE LET out == parseVerifierOutput(reply) IN
         IF out.threw THEN [outcome |-> "pass", called |-> TRUE]
         ELSE IF out.parsed.kind # "object"
         THEN [outcome |-> "pass", called |-> TRUE]
         ELSE IF out.parsed.outcome \in ValidOutcomes
         THEN [outcome |-> out.parsed.outcome, called |-> TRUE]
         ELSE [outcome |-> "pass", called |-> TRUE]

\* callbacks.verify of the orchestrator: the loop's verify step with
\* verifyCandidate as the callback
VerifyCandidate(candidate, reply) ==
    /\ loopPc = "verify"
    /\ LET v == verifyCandidate(candidate, reply) IN
        /\ verdict' = v.outcome
        /\ vfCalled' = v.called
        /\ vfReply' = IF v.called THEN reply ELSE NoReply
    /\ vfCandidate' = candidate
    /\ verifyCalls' = verifyCalls + 1
    /\ iteration' = iteration + 1
    /\ loopPc' = "test"
    /\ UNCHANGED <<loopRisk, reviseCalls, loopResult, loopEvent>>
    /\ UNCHANGED <<toolVars, browserVars, harnessVars, queueVars>>
    /\ UNCHANGED <<proactiveVars, memoryVars, pendingVars, spillVars,
                   settingsVars, teamVars, outreachVars, codexVars,
                   approvalVars,
                   metricsVars>>

\* the orchestrator's test after the loop returned
LoopNeedsInput ==
    /\ loopPc = "returned"
    /\ loopResult.exhausted
    /\ verdict # "pass"

NextVerifier ==
    \/ LoopCall
    \/ LoopGenerate
    \/ \E candidate \in Candidates, reply \in VerifierReplies :
            VerifyCandidate(candidate, reply)
    \/ LoopTest
    \/ LoopRevise

(***************************************************************************)
(* Approval commands (/approve and /deny of the channel client, browser    *)
(* approve and deny of the CLI)                                            *)
(***************************************************************************)
NoCommand == [senderId |-> "none", kind |-> "none", requestId |-> 0, approve |-> FALSE]

\* the CLI runs as the operator of the machine, who is no channel user
CliUser == "local-user"

RequestKinds == {"browser", "perm"}

ApprovalInit == approvalCmd = NoCommand

\* resolveBrowserApproval(requestId, approve): the table afterwards
resolveBrowserApproval(approvals, requestId, approve) ==
    IF requestId \notin DOMAIN approvals THEN approvals
    ELSE [approvals EXCEPT ![requestId].status =
             IF approve THEN "approved" ELSE "denied"]

\* the frame of a command: it touches the two tables and nothing else
CommandFrame ==
    /\ UNCHANGED <<hardStop, brPc, brRun, brResult, brTab>>
    /\ UNCHANGED <<uuidCount, toolRegistry, toolPc, toolCall>>
    /\ UNCHANGED <<loopVars, harnessVars, queueVars>>
    /\ UNCHANGED <<proactiveVars, memoryVars, pendingVars, spillVars,
                   settingsVars, teamVars, outreachVars, codexVars,
                   verifierVars,
                   metricsVars>>

\* the message_create handler on "/approve <id>" or "/deny <id>" of a paired
\* sender; the id names a browser request or a permission request
MessageCreate(senderId, kind, requestId, approve) ==
    /\ approvalCmd' = [senderId |-> senderId, kind |-> kind,
                       requestId |-> requestId, approve |-> approve]
    /\ IF kind = "browser" /\ requestId \in DOMAIN brApprovals
       THEN /\ brApprovals' = resolveBrowserApproval(brApprovals, requestId, approve)
            /\ UNCHANGED permissions
       ELSE IF /\ kind = "perm"
               /\ requestId \in DOMAIN permissions
               /\ permissions[requestId].user_id = senderId
               /\ permissions[requestId].status = "pending"
       THEN /\ permissions' = upsertPermission(permissions, requestId,
                                 permissions[requestId].user_id,
                                 permissions[requestId].subject,
                                 permissions[requestId].action,
                                 permissions[requestId].resource,
                                 IF approve THEN "active" ELSE "revoked")
            /\ UNCHANGED brApprovals
       ELSE UNCHANGED <<brApprovals, permissions>>
    /\ CommandFrame

\* tinyagi browser approve <request_id> and tinyagi browser deny <request_id>
BrowserCommand(requestId, approve) ==
    /\ approvalCmd' = [senderId |-> CliUser, kind |-> "browser",
                       requestId |-> requestId, approve |-> approve]
    /\ brApprovals' = resolveBrowserApproval(brApprovals, requestId, approve)
    /\ UNCHANGED permissions
    /\ CommandFrame

\* the browser executor on the CDP path and the tooling executor, with the
\* commands that decide their requests
NextApproval ==
    \/ \E plan \in BrowserPlans : ExecuteBrowserTask("u1", plan, "cdp", "ok")
    \/ BrowserStepGate
    \/ \E outcome \in {"success", "checkpoint", "failure"}, landed \in {Url.Shop, Url.Cvv} :
          BrowserAttempt(outcome, landed)
    \/ BrowserException
    \/ \E senderId \in Users, kind \in RequestKinds,
          requestId \in 1..MaxApprovals, approve \in BOOLEAN :
          MessageCreate(senderId, kind, requestId, approve)
    \/ \E requestId \in 1..MaxApprovals, approve \in BOOLEAN :
          BrowserCommand(requestId, approve)
    \/ ExecuteToolingTask("u1", Blob.NpmVersion)

(***************************************************************************)
(* Metrics (incrementMetric of the repository, called by the processes     *)
(* that share the database file)                                           *)
(***************************************************************************)
MetricProcesses == {"queue-processor", "channel-client"}

MetricNames == {"tasks_blocked_count", "memory_updates_count"}

MetricDeltas == {1, 2}

\* the incrementMetric calls the model makes
MaxIncrements == 3

NoIncrement == [pc |-> "idle", metricName |-> "none", delta |-> 0, nextValue |-> 0]

MetricsInit ==
    /\ metrics = [name \in MetricNames |-> 0]
    /\ metricEvents = <<>>
    /\ metricCalls = [p \in MetricProcesses |-> NoIncrement]
    /\ increments = 0

\* incrementMetric, first statement: the SELECT of the current value (a
\* missing row reads as 0) and the sum computed from it
MetricSelect(p, metricName, delta) ==
    /\ metricCalls[p].pc = "idle"
    /\ increments < MaxIncrements
    /\ increments' = increments + 1
    /\ metricCalls' = [metricCalls EXCEPT ![p] =
          [pc |-> "selected", metricName |-> metricName, delta |-> delta,
           nextValue |-> metrics[metricName] + delta]]
    /\ UNCHANGED <<metrics, metricEvents>>
    /\ UNCHANGED notMetricsVars

\* second statement: db.upsert of harness_metrics with the computed value
MetricUpsert(p) ==
    /\ metricCalls[p].pc = "selected"
    /\ metrics' = [metrics EXCEPT ![metricCalls[p].metricName] =
                      metricCalls[p].nextValue]
    /\ metricCalls' = [metricCalls EXCEPT ![p].pc = "upserted"]
    /\ UNCHANGED <<metricEvents, increments>>
    /\ UNCHANGED notMetricsVars

\* third statement: db.insert of the harness_metric_events row
MetricInsert(p) ==
    /\ metricCalls[p].pc = "upserted"
    /\ metricEvents' = Append(metricEvents,
          [metric_name |-> metricCalls[p].metricName,
           delta |-> metricCalls[p].delta])
    /\ metricCalls' = [metricCalls EXCEPT ![p] = NoIncrement]
    /\ UNCHANGED <<metrics, increments>>
    /\ UNCHANGED notMetricsVars

NextMetrics ==
    \/ \E p \in MetricProcesses, metricName \in MetricNames, delta \in MetricDeltas :
          MetricSelect(p, metricName, delta)
    \/ \E p \in MetricProcesses : MetricUpsert(p)
    \/ \E p \in MetricProcesses : MetricInsert(p)

\* the services start from their files and tables as a fresh install has them
ServiceInit == ProactiveInit /\ MemoryInit /\ PendingInit /\ SpillInit /\ SettingsInit /\ TeamInit /\ OutreachInit /\ CodexInit /\ VerifierInit /\ ApprovalInit /\ MetricsInit

Init == LoopInit /\ ToolInit /\ BrowserInit /\ HarnessInit /\ QueueInit /\ ServiceInit

\* the state after a start with runs of earlier messages in the repository
InitBacklog ==
    /\ LoopInit
    /\ ToolInit
    /\ BrowserInit
    /\ QueueInit
    /\ ServiceInit
    /\ \E n \in BacklogSizes : taskRuns = Backlog(n)
    /\ now = 0
    /\ hPc = "idle"
    /\ hRun = NoHarnessRun
    /\ hResult = NoHarnessResult
    /\ lastMsg = NoMsg

SpecLoop == Init /\ [][NextLoop]_vars

SpecTool == Init /\ [][NextTool]_vars

SpecRegistry == Init /\ [][NextRegistry]_vars

SpecBrowser == Init /\ [][NextBrowser]_vars

SpecBrowserClose == Init /\ [][NextBrowserClose]_vars

SpecHarness == Init /\ [][NextHarness]_vars

SpecSupersede == InitBacklog /\ [][NextSupersede]_vars

SpecQueue == Init /\ [][NextQueue]_vars

SpecRestart == Init /\ [][NextRestart]_vars

SpecQueueLive == Init /\ [][NextQueueLive]_vars /\ QueueFairness

SpecLifecycle == InitBacklog /\ [][NextHarness]_vars

SpecProactive == Init /\ [][NextProactive]_vars

SpecMemory == Init /\ [][NextMemory]_vars

SpecPending == Init /\ [][NextPending]_vars

SpecSpill == Init /\ [][NextSpill]_vars

SpecSettings == Init /\ [][NextSettings]_vars

SpecTeam == Init /\ [][NextTeam]_vars

SpecTeamLive == Init /\ [][NextTeam]_vars /\ TeamFairness

SpecOutreach == Init /\ [][NextOutreach]_vars

SpecCodex == Init /\ [][NextCodex]_vars

SpecVerifier == Init /\ [][NextVerifier]_vars

SpecApproval == Init /\ [][NextApproval]_vars

SpecMetrics == Init /\ [][NextMetrics]_vars

\* C8: a run of the loop at risk r never uses more loops than budget(r)
\* (low 1, medium 3, high and critical 5), calls verify at most budget(r)
\* times and revise at most budget(r) - 1 times.
C8_LoopBudget ==
    /\ verifyCalls <= loopBudgetForRisk(loopRisk)
    /\ reviseCalls <= loopBudgetForRisk(loopRisk) - 1
    /\ loopResult.loopsUsed <= loopBudgetForRisk(loopRisk)
    /\ loopBudgetForRisk(loopRisk) \in {1, 3, 5}
    /\ (loopRisk = "low") = (loopBudgetForRisk(loopRisk) = 1)
    /\ (loopRisk = "medium") = (loopBudgetForRisk(loopRisk) = 3)

\* a high-risk run that spent its whole budget: five verifications, four
\* revisions, loopsUsed 5
C8_Witness ==
    /\ loopPc = "returned"
    /\ loopRisk = "high"
    /\ verifyCalls = 5
    /\ reviseCalls = 4
    /\ loopResult.loopsUsed = 5
    /\ loopResult.exhausted

\* the command of the last call is one the allowlist rule forbids
ForbiddenCommand(command) ==
    \/ tokenizeCommand(command) = <<>>
    \/ tokenizeCommand(command)[1] \notin AllowedToolSet
    \/ HasChaining(command)
    \/ HasSudo(command)
    \/ HasRmRf(command)

\* C5: the tooling executor never spawns a process whose argv[0] is outside
\* the allowlist (npm, npx, pip, pip3, brew, git, docker, pnpm, yarn), never
\* runs a command containing ; & | a grave accent, sudo or rm -rf, and every
\* such command returns needs_input without execution.
C5_ToolAllowlist ==
    /\ toolCall.argv # <<>> =>
          /\ toolCall.argv[1] \in AllowedToolSet
          /\ ~HasChaining(toolCall.command)
          /\ ~HasSudo(toolCall.command)
          /\ ~HasRmRf(toolCall.command)
    /\ (toolCall.status # "none" /\ ForbiddenCommand(toolCall.command)) =>
          /\ toolCall.status = "needs_input"
          /\ toolCall.argv = <<>>

\* a row of the permissions table that is active for (user, tool, execute)
ActiveRow(userId, subject) ==
    \E id \in DOMAIN permissions :
        permissions[id] \in
            [user_id : {userId}, subject : {subject}, action : {"execute"},
             resource : {"tool", "manual"}, status : {"active"}]

\* a step in which executeToolingTask decides a call
ToolDecision == toolPc = "idle" /\ toolCall' # toolCall

\* the permission gate proper: a spawn needs an active permission, and a
\* well-formed command without one gets a fresh pending request instead
GateStep ==
    ToolDecision =>
        LET userId   == toolCall'.userId
            toolName == toLowerCase(tokenizeCommand(toolCall'.command)[1])
        IN  /\ toolPc' = "running" => ActiveRow(userId, toolName)
            /\ (toolCall'.status # "needs_input" /\ ~ActiveRow(userId, toolName)) =>
                  /\ toolCall'.status = "needs_approval"
                  /\ toolPc' = "idle"
                  /\ toolCall'.argv = <<>>
                  /\ toolCall'.requestId \notin DOMAIN permissions
                  /\ toolCall'.requestId \in DOMAIN permissions'
                  /\ permissions'[toolCall'.requestId] =
                        [user_id |-> userId, subject |-> toolName,
                         action |-> "execute", resource |-> "tool",
                         status |-> "pending"]
            /\ (toolCall'.status # "needs_input" /\ ActiveRow(userId, toolName)) =>
                  /\ toolPc' = "running"
                  /\ toolCall'.argv = tokenizeCommand(toolCall'.command)
                  /\ permissions' = permissions

\* C6 as stated: executeToolingTask spawns only if an active permission
\* (user, tool, execute) exists; without one it creates a pending permission
\* with a fresh request id, returns needs_approval and spawns nothing; once
\* the permission is granted the same call returns completed.
C6_PermissionGate_AsStated ==
    [][/\ GateStep
       /\ (toolPc = "running" /\ toolPc' = "idle") => toolCall'.status = "completed"]_vars

\* C6 amended: as above, but once the permission is granted the call
\* executes the command and returns completed when the command exits with
\* code 0 and failed otherwise; it never returns needs_approval.
C6_PermissionGate ==
    [][/\ GateStep
       /\ (toolPc = "running" /\ toolPc' = "idle") =>
             /\ toolCall'.argv = toolCall.argv
             /\ toolCall'.status = IF toolCall'.code = 0 THEN "completed" ELSE "failed"]_vars

\* a request created by the gate was approved and the same call of the same
\* user then ran to completion
C6_Witness ==
    /\ toolCall.status = "completed"
    /\ toolCall.argv # <<>>
    /\ \E id \in DOMAIN permissions :
          permissions[id] =
              [user_id |-> toolCall.userId,
               subject |-> toLowerCase(toolCall.argv[1]),
               action |-> "execute", resource |-> "tool", status |-> "active"]

\* no step matching the payment regex is run, or about to be run, by a call
\* that read hard_stop_payments as true
PaymentNeverExecuted ==
    brRun.hardStop =>
        /\ \A step \in brRun.executed : ~isPaymentStep(step)
        /\ brPc = "attempt" => ~isPaymentStep(brRun.plan[brRun.i])

\* the executor leaves the top of the step loop at a payment step only by
\* returning needs_approval with a fresh pending approval request (or by
\* failing in its outer exception handler)
PaymentStepGated ==
    (/\ brPc = "step"
     /\ brPc' # "step"
     /\ brRun.i <= Len(brRun.plan)
     /\ brRun.hardStop
     /\ isPaymentStep(brRun.plan[brRun.i]))
    => \/ /\ brResult'.status = "needs_approval"
          /\ brResult'.requestId \notin DOMAIN brApprovals
          /\ brResult'.requestId \in DOMAIN brApprovals'
          /\ brApprovals'[brResult'.requestId].status = "pending"
          /\ brRun'.executed = brRun.executed
          /\ brPc' = "idle"
       \/ /\ brResult'.status = "failed"
          /\ brPc' = "idle"
          /\ brApprovals' = brApprovals

SupersededEvents(r) ==
    Cardinality({k \in DOMAIN taskRuns[r].events :
                    taskRuns[r].events[k] = "superseded_by_new_message"})

\* a run that the last supersession had to reject and did not
LeftWaiting(r) ==
    /\ taskRuns[r].channel = lastMsg.channel
    /\ taskRuns[r].senderId = lastMsg.senderId
    /\ taskRuns[r].status = "needs_input"
    /\ taskRuns[r].updated_at < lastMsg.cutoff

\* C9: once an external message of channel c and sender s has been handled,
\* every earlier run of c and s that waited for input with an updated_at
\* before the cutoff is rejected and carries exactly one
\* superseded_by_new_message event, however many such runs there are: no
\* such run is left waiting, and a run has one such event when it is
\* rejected and none otherwise
C9_Supersession ==
    /\ lastMsg # NoMsg => \A r \in DOMAIN taskRuns : ~LeftWaiting(r)
    /\ \A r \in DOMAIN taskRuns :
          SupersededEvents(r) = IF taskRuns[r].status = "rejected" THEN 1 ELSE 0

\* executeToolingTask or executeBrowserTask has returned needs_approval to
\* the waiting executeHarness
ExecutorAsksApproval ==
    \/ hPc = "tooling" /\ toolPc = "idle" /\ toolCall.status = "needs_approval"
    \/ hPc = "browser" /\ brPc = "idle" /\ brResult.status = "needs_approval"

AskedRequestId == IF hPc = "tooling" THEN toolCall.requestId ELSE brResult.requestId

\* C10: when the tooling executor or the browser executor returns
\* needs_approval with a request id, executeHarness finalizes the run as
\* awaiting_approval and returns awaiting_approval with the request id; it
\* does not finalize the run as verified
C10_ApprovalRequired ==
    [][(ExecutorAsksApproval /\ hPc' = "idle") =>
          /\ taskRuns'[hRun.run].status = "awaiting_approval"
          /\ hResult'.status = "awaiting_approval"
          /\ hResult'.requestId = AskedRequestId]_vars

\* the agent id processMessage resolves for a file: error for an external
\* message that mentions several agents
ResolvedAgentId(f) ==
    IF ~files[f].internal /\ routedAgent(files[f]) = "error" THEN "error"
    ELSE resolveAgent(files[f])

\* the handler of a file has begun
Begun(f) == f \in running \/ f \in completed

\* C1: for two message files of the same resolved agent id, the handler of
\* the one with the earlier mtime has completed before the handler of the
\* later one begins, whatever the polling ticks and the other chains do
C1_PerAgentOrdering ==
    \A f1 \in DOMAIN files : \A f2 \in DOMAIN files :
        (f1 < f2 /\ ResolvedAgentId(f1) = ResolvedAgentId(f2) /\ Begun(f2))
            => f1 \in completed

\* the number of places a message is in: incoming/, processing/, outgoing/
\* (an envelope that carries its response), delivered
Places(f) ==
    (IF files[f].loc = "incoming" THEN 1 ELSE 0)
    + (IF files[f].loc = "processing" THEN 1 ELSE 0)
    + (IF \E e \in outgoing : f \in e.parts /\ ~e.delivered THEN 1 ELSE 0)
    + (IF \E e \in outgoing : f \in e.parts /\ e.delivered THEN 1 ELSE 0)

\* C2: at every instant every message envelope is in exactly one of
\* incoming/, processing/ and outgoing/, or has been delivered, for
\* single-agent, team-branch and internal messages alike
C2_QueueAtomicity == \A f \in DOMAIN files : Places(f) = 1

\* the outgoing envelopes of a conversation
EnvelopesOf(c) == {e \in outgoing : e.conv = c}

\* C3: a conversation record is removed from the conversations map if and
\* only if its pending counter is 0, and each conversation emits exactly one
\* outgoing envelope: a record in the map has open branches and no envelope
\* yet, a removed one has one envelope, and a record leaves the map in the
\* step that closes its last open branch
C3_ConversationClosure ==
    /\ [](\A c \in DOMAIN conversations :
             IF conversations[c].live
             THEN conversations[c].pending # 0 /\ EnvelopesOf(c) = {}
             ELSE Cardinality(EnvelopesOf(c)) = 1)
    /\ [][\A c \in DOMAIN conversations :
             (conversations[c].live /\ ~conversations'[c].live)
                 => conversations[c].pending = 1]_vars

\* the process has stopped and started again
RestartStep ==
    /\ completed' = completed
    /\ \/ queuedFiles # {} /\ queuedFiles' = {}
       \/ \E c \in DOMAIN conversations : conversations[c].live /\ ~conversations'[c].live

\* nothing is left to do: no file in incoming/ or processing/
Quiescent == \A f \in DOMAIN files : files[f].loc = "gone"

\* C4: a restart moves every file of processing/ back to incoming/ and no
\* work is lost: once nothing is left to do, the response to every message
\* is part of an envelope the user receives
C4_CrashRecovery ==
    /\ [][RestartStep =>
             \A f \in DOMAIN files :
                 files[f].loc = "processing" => files'[f].loc = "incoming"]_vars
    /\ [](Quiescent =>
             \A f \in DOMAIN files : \E e \in outgoing : f \in e.parts)

\* the statuses executeHarness finalizes a run to
FinalStatuses == {"verified", "needs_input", "awaiting_approval", "failed"}

\* a run is in progress only while its executeHarness call is
NoRunLeftInProgress ==
    \A r \in DOMAIN taskRuns :
        taskRuns[r].status = "in_progress" => hPc # "idle" /\ hRun.run = r

\* the run of the call that returned last has a final status, until a
\* later message supersedes it
ReturnedRunFinal ==
    (hPc = "idle" /\ hResult.run # 0) =>
        taskRuns[hResult.run].status \in FinalStatuses \cup {"rejected"}

\* a step creates runs in progress, finalizes the run in progress, and
\* changes a finalized run only from needs_input to rejected
LifecycleStep ==
    /\ \A r \in DOMAIN taskRuns' \ DOMAIN taskRuns :
           taskRuns'[r].status = "in_progress"
    /\ \A r \in DOMAIN taskRuns :
           LET old == taskRuns[r].status
               new == taskRuns'[r].status
           IN  /\ (old = "in_progress" /\ hPc' = "idle") => new \in FinalStatuses
               /\ (old \in FinalStatuses /\ new # old) =>
                      old = "needs_input" /\ new = "rejected"
               /\ old = "rejected" => new = "rejected"

HeldBack == {id \in DOMAIN proLog : ~proLog[id].urgent /\ proLog[id].quiet}

\* the local time t is inside the quiet hours
QuietAt(t) ==
    IF quietHours.start = quietHours.end THEN FALSE
    ELSE IF quietHours.start < quietHours.end
    THEN t >= quietHours.start /\ t < quietHours.end
    ELSE t >= quietHours.start \/ t < quietHours.end

\* no held-back message has an envelope written inside quiet hours, and
\* each is either waiting in the deferred file or written once
HeldBackUntilExit ==
    \A id \in HeldBack :
        LET written == {k \in DOMAIN proOutgoing : proOutgoing[k].id = id}
            waiting == {k \in DOMAIN deferredFile : deferredFile[k].id = id}
        IN  /\ \A k \in written : ~QuietAt(proOutgoing[k].timestamp)
            /\ Cardinality(written) + Cardinality(waiting) = 1

\* a scheduler tick of the enabled harness
SchedulerTick ==
    \E digestDue, outreachDue, awaitingApproval \in BOOLEAN :
        ProactiveTick(TRUE, digestDue, outreachDue, awaitingApproval)

\* a tick outside quiet hours writes every waiting message to outgoing/
FlushedOnExit ==
    (SchedulerTick /\ ~isQuietHours) =>
        \A k \in DOMAIN deferredFile :
            \E j \in DOMAIN proOutgoing' : proOutgoing'[j].id = deferredFile[k].id

\* C12: a proactive message that is not urgent and is queued inside quiet
\* hours is not written to the outgoing queue during quiet hours, and the
\* first scheduler tick after the exit from quiet hours writes it there
C12_QuietHours == []HeldBackUntilExit /\ [][FlushedOnExit]_vars

\* a held-back message was written by a tick after the quiet hours, which
\* wrap around midnight
C12_Witness ==
    /\ quietHours.start > quietHours.end
    /\ \E id \in HeldBack : \E k \in DOMAIN proOutgoing :
           /\ proOutgoing[k].id = id
           /\ proOutgoing[k].timestamp # proLog[id].createdAt

\* C13: the pending counter of every conversation in the conversations map
\* is at least 0 in every reachable state, also after a handler exception
\* and the retry of the branch message
C13_PendingNonNegative ==
    \A c \in DOMAIN conversations :
        conversations[c].live => conversations[c].pending >= 0

\* at most one memory record per (user, category, key)
OneRecordPerKey ==
    \A a, b \in memoryRecords :
        (/\ a.user_id = b.user_id
         /\ a.category = b.category
         /\ a.key = b.key) => a = b

\* no step lowers the confidence of a stored record
ConfidenceKept ==
    \A a \in memoryRecords : \A b \in memoryRecords' :
        a.record_id = b.record_id => b.confidence >= a.confidence

\* C14: there is at most one memory record per (user, category, key), and
\* over any sequence of ingests the stored confidence of a record never
\* decreases
C14_MemoryConfidence == []OneRecordPerKey /\ [][ConfidenceKept]_vars

\* the (record id, category, key, value) rows of the table
MemoryRows ==
    {[record_id |-> a.record_id, category |-> a.category, key |-> a.key,
      value |-> a.value] : a \in memoryRecords}

\* an ingest with the arguments of the ingest before it leaves the rows
\* and the number of records as they were
RepeatedIngestChangesNothing ==
    lastIngest'.repeated =>
        /\ MemoryRows' = MemoryRows
        /\ Cardinality(memoryRecords') = Cardinality(memoryRecords)

\* C15: ingesting the same objective and response twice for one user
\* leaves the same (category, key, value) rows as ingesting them once, and
\* the second ingest creates no record
C15_IngestIdempotent == [][RepeatedIngestChangesNothing]_vars

\* a text with two rules matching was ingested twice in a row and the
\* second ingest came from another run
C15_Witness ==
    /\ lastIngest.repeated
    /\ lastIngest.objective = Text.Nap
    /\ \E a, b \in memoryRecords :
          /\ a # b
          /\ a.user_id = lastIngest.userId
          /\ b.user_id = lastIngest.userId
          /\ a.source_run_id = "run_2"

\* the rows that have expired, and the rows that have not, at pendingNow
ExpiredRows == {row \in pendingStore : row.expires_at < pendingNow}

UnexpiredRows == {row \in pendingStore : row.expires_at > pendingNow}

CleanupChannels == PendingChannels \cup {""}

\* no read of an expired row returns it, through whichever channel
ExpiredNeverRead ==
    \A row \in ExpiredRows : \A channel \in PendingChannels :
        readPendingMessage(pendingStore, channel, row.message_id, pendingNow).result = Null

\* a cleanup of the store a cleanup has left removes nothing
CleanupIdempotent ==
    \A channel \in CleanupChannels :
        LET once == purgeExpiredChannelPendingMessages(pendingStore, channel, 0, pendingNow)
        IN  purgeExpiredChannelPendingMessages(once.store, channel, 0, pendingNow)
                = [store |-> once.store, count |-> 0]

\* a cleanup removes no unexpired row
CleanupKeepsUnexpired ==
    \A channel \in CleanupChannels :
        CleanupExpiredPendingMessages(channel) => UnexpiredRows \subseteq pendingStore'

\* any cleanup removes every expired row
CleanupRemovesAllExpired ==
    \A channel \in CleanupChannels :
        CleanupExpiredPendingMessages(channel) => ExpiredRows \cap pendingStore' = {}

\* a cleanup removes every expired row of its channel, and of every
\* channel when its channel is empty
CleanupRemovesExpiredOfChannel ==
    \A channel \in CleanupChannels :
        CleanupExpiredPendingMessages(channel) =>
            \A row \in ExpiredRows :
                (channel = "" \/ row.channel = channel) => row \notin pendingStore'

\* C16 as stated: a pending row whose expires_at is before now is never
\* returned by readPendingMessage and is removed by the next
\* cleanupExpiredPendingMessages; a cleanup is idempotent and never
\* removes an unexpired row
C16_PendingTtl_AsStated ==
    /\ [](ExpiredNeverRead /\ CleanupIdempotent)
    /\ [][CleanupRemovesAllExpired /\ CleanupKeepsUnexpired]_vars

\* C16 amended: as above, but the cleanup that removes the expired row is
\* the next cleanup of the row's channel (or of the empty channel)
C16_PendingTtl ==
    /\ [](ExpiredNeverRead /\ CleanupIdempotent)
    /\ [][CleanupRemovesExpiredOfChannel /\ CleanupKeepsUnexpired]_vars

\* a cleanup of whatsapp removed an expired row and left an unexpired row
\* of whatsapp where it was
C16_Witness ==
    /\ pendingOp.op = "cleanup"
    /\ pendingOp.channel = "whatsapp"
    /\ pendingOp.removed = 1
    /\ \E row \in pendingStore : row.channel = "whatsapp" /\ row.expires_at > pendingNow

\* what readPendingMessage is to return for a remembered message
Remembered(channel, refs) ==
    [found |-> TRUE, channel |-> channel, sender |-> "tester", senderId |-> "123",
     chatRef |-> OrElse(refs.chatRef, "123"), replyRef |-> refs.replyRef]

\* what a read of messageId through channel would return in the state
\* before the step, and in the state after it
ReadNow(channel, messageId) ==
    readPendingMessage(pendingStore, channel, messageId, pendingNow).result

ReadNext(channel, messageId) ==
    readPendingMessage(pendingStore', channel, messageId, pendingNow').result

\* right after a remember the channel of the message reads what was
\* remembered and every other channel reads null
RememberThenRead ==
    \A messageId \in MessageIds, channel \in PendingChannels, refs \in Refs, ttlMs \in Ttls :
        RememberPendingMessage(messageId, channel, refs, ttlMs) =>
            /\ ReadNext(channel, messageId) = Remembered(channel, refs)
            /\ \A other \in PendingChannels \ {channel} : ReadNext(other, messageId) = Null

\* right after a clear every channel reads null
ClearThenNull ==
    \A messageId \in MessageIds :
        ClearPendingMessage(messageId) =>
            \A channel \in PendingChannels : ReadNext(channel, messageId) = Null

\* the step is a remember or a clear of messageId
Rewritten(messageId) ==
    \/ ClearPendingMessage(messageId)
    \/ \E channel \in PendingChannels, refs \in Refs, ttlMs \in Ttls :
           RememberPendingMessage(messageId, channel, refs, ttlMs)

\* until the message is remembered again, cleared or expired, a read keeps
\* returning what it returned; a null stays a null until the next remember
ReadKept ==
    \A messageId \in MessageIds, channel \in PendingChannels :
        ~Rewritten(messageId) =>
            /\ (ReadNow(channel, messageId) = Null => ReadNext(channel, messageId) = Null)
            /\ \A row \in getChannelPendingMessage(pendingStore, messageId) :
                   row.expires_at > pendingNow' =>
                       ReadNext(channel, messageId) = ReadNow(channel, messageId)

\* C17: after rememberPendingMessage(m, channel c, ttl) and before expiry,
\* readPendingMessage(c, m) returns the remembered sender and reply
\* references; after clearPendingMessage(m) it returns null; a read with a
\* channel other than c returns null
C17_PendingRoundTrip == [][RememberThenRead /\ ClearThenNull /\ ReadKept]_vars

\* a read a millisecond or more after the remember has returned the
\* message, its chat reference being the sender id it fell back to
C17_Witness ==
    /\ pendingOp.op = "read"
    /\ pendingOp.result.found
    /\ pendingOp.result.chatRef = "123"
    /\ pendingNow > 0
    /\ \A row \in pendingStore : row.expires_at > DEFAULT_TTL_MS

\* a step without the page url the trace stores with it
ActionOf(step) == [type |-> step.type, selector |-> step.selector, value |-> step.value]

RECURSIVE ActionsOf(_)
ActionsOf(steps) ==
    IF steps = <<>> THEN <<>>
    ELSE <<ActionOf(Head(steps))>> \o ActionsOf(Tail(steps))

\* the steps of the run's successful and checkpoint trace entries, in order
RECURSIVE GoodSteps(_)
GoodSteps(trace) ==
    IF trace = <<>> THEN <<>>
    ELSE IF Head(trace).outcome \in {"success", "checkpoint"}
         THEN <<[type |-> Head(trace).stepType, selector |-> Head(trace).selector,
                 value |-> Head(trace).value]>> \o GoodSteps(Tail(trace))
         ELSE GoodSteps(Tail(trace))

\* s is t with some of its elements left out
RECURSIVE IsSubsequence(_, _)
IsSubsequence(s, t) ==
    IF s = <<>> THEN TRUE
    ELSE IF t = <<>> THEN FALSE
    ELSE IF Head(s) = Head(t) THEN IsSubsequence(Tail(s), Tail(t))
    ELSE IsSubsequence(s, Tail(t))

\* the step is a call of replayBrowserRun
ReplayCalled ==
    \E provider \in BrowserProviders, session \in {"ok", "fallback", "down"} :
        ReplayBrowserRun("u1", provider, session)

\* the plan a replay executes is a subsequence of the successful and
\* checkpoint steps of the recorded run
ReplayPlanIsSubsequence ==
    (ReplayCalled /\ brRun'.mode = "replay") =>
        IsSubsequence(ActionsOf(brRun'.plan), GoodSteps(brTab.trace))

\* a replay of a run without a replayable trace returns needs_input and
\* starts no run
NothingToReplay ==
    (ReplayCalled /\ replaySteps(brTab.trace, {}) = <<>>) =>
        brResult'.status = "needs_input" /\ brRun' = NoRun /\ brPc' = "idle"

\* C18: replaying a completed browser run builds a plan whose action
\* sequence is a subsequence, in the original order, of that run's
\* successful and checkpoint steps (each actionId at most once, ill-formed
\* entries dropped); a run with no replayable trace yields needs_input and
\* executes nothing
C18_ReplayFidelity == [][ReplayPlanIsSubsequence /\ NothingToReplay]_vars

\* the envelope carries a preview and a .md file that holds the full text
Spilled(envelope) ==
    /\ envelope.message.length <= LONG_RESPONSE_THRESHOLD + 40
    /\ \E i \in DOMAIN envelope.files :
           /\ envelope.files[i].ext = ".md"
           /\ envelope.files[i] \in DOMAIN filesDir
           /\ filesDir[envelope.files[i]] = envelope.response

\* C19: for every envelope written to the outgoing queue whose response
\* text exceeds 4000 characters, the envelope's message has length at most
\* 4000 + 40 and its files list contains a .md attachment holding the full
\* text
C19_LongResponseSpill ==
    \A i \in DOMAIN outbox :
        outbox[i].response.length > LONG_RESPONSE_THRESHOLD => Spilled(outbox[i])
\* C20: with any interleaving of saveSettings calls from the processes
\* that write settings (queue processor, channel adapter, CLI) and
\* concurrent readers, a reader never observes a partially written
\* settings.json
C20_SettingsAtomic == readerSeen \in SettingsTexts

\* the files a chain still holds, and the agent whose handler a file waits for
HandledBy(f) == IF routedAgent(files[f]) = "error" THEN "error" ELSE resolveAgent(files[f])

\* only files of one agent share a chain, so nothing but a handler of its
\* own agent stands before a queued file
ChainOfOneAgent ==
    \A key \in ChainKeys : \A i, j \in DOMAIN chains[key] :
        HandledBy(chains[key][i]) = HandledBy(chains[key][j])

\* the handler at the head of a chain can start, whatever runs on the
\* other chains
HeadCanStart ==
    \A key \in ChainKeys :
        (chains[key] # <<>> /\ Head(chains[key]) \notin running)
            => ENABLED ProcessMessageClaim(key)

\* C21: handlers of messages resolving to distinct agentIds may overlap in
\* time: a handler still running on one agent's chain never delays the
\* start of a handler queued on another agent's chain
C21_InterAgentParallelism == ChainOfOneAgent /\ HeadCanStart

\* the handlers of two agents run at the same time
C21_Witness ==
    \E f, g \in running :
        /\ resolveAgent(files[f]) # resolveAgent(files[g])
        /\ files[f].loc = "processing"
        /\ files[g].loc = "processing"

\* the places a file has in the chains
PlacesInChains(f) ==
    UNION {{<<key, i>> : i \in {j \in DOMAIN chains[key] : chains[key][j] = f}} :
              key \in ChainKeys}

\* at most one handler invocation is queued or running for a file, and its
\* name is in queuedFiles for as long
OneInvocationPerFile ==
    /\ \A f \in DOMAIN files : Cardinality(PlacesInChains(f)) <= 1
    /\ \A f \in DOMAIN files : PlacesInChains(f) # {} => f \in queuedFiles
    /\ running \subseteq queuedFiles

\* a name leaves queuedFiles only when the handler of the file, the head
\* of its chain, has finished
ReleasedWhenFinished ==
    \A f \in queuedFiles \ queuedFiles' :
        /\ \E key \in ChainKeys :
               chains[key] # <<>> /\ Head(chains[key]) = f /\ chains'[key] = Tail(chains[key])
        /\ f \notin running'

\* a chain loses its handlers one by one from the head: it is gone only
\* when its latest handler has finished
ChainGoesWithLatest ==
    \A key \in ChainKeys :
        \/ Len(chains'[key]) >= Len(chains[key])
              /\ SubSeq(chains'[key], 1, Len(chains[key])) = chains[key]
        \/ chains[key] # <<>> /\ chains'[key] = Tail(chains[key])

\* C22: a file already queued into a per-agent chain is skipped by later
\* polling ticks, so at any time at most one handler invocation is queued
\* or running for a given incoming file; the file name is released from
\* queuedFiles only when its handler has finished, and a chain-map entry is
\* deleted only if it is still the latest chain for that agent
C22_NoDuplicateProcessing ==
    /\ []OneInvocationPerFile
    /\ [][ReleasedWhenFinished /\ ChainGoesWithLatest]_vars

\* a file whose handler threw is queued for the second time while another
\* file waits in incoming/ behind a tick that skipped neither
C22_Witness ==
    /\ throws > 0
    /\ \E f \in completed \cap queuedFiles : files[f].loc = "incoming"
    /\ \E key \in ChainKeys : Len(chains[key]) > 1

\* the event the loop is to record for its last verdict
LoopEventFor(outcome) ==
    IF outcome = "pass" \/ outcome = "abstain" THEN "loop_completed" ELSE "loop_exhausted"

\* the invocation of the loop ends: it returns, or a callback throws and
\* executeHarness catches
LoopInvocationEnds ==
    loopPc \in {"generate", "verify", "test", "revise"} /\ loopPc' \in {"returned", "idle"}

LoopInvocationReturns ==
    loopPc \in {"generate", "verify", "test", "revise"} /\ loopPc' = "returned"

\* the event of the run is set once in an invocation, by its return
LoopEventSetOnce ==
    loopEvent' # loopEvent =>
        \/ loopEvent = "none" /\ LoopInvocationReturns
        \/ loopEvent' = "none" /\ loopPc' = "generate"

\* an invocation that returns has recorded the event of its last verdict
\* and returns exhausted to match
ReturnRecordsEvent ==
    LoopInvocationReturns =>
        /\ loopEvent' = LoopEventFor(verdict')
        /\ loopResult'.exhausted = (loopEvent' = "loop_exhausted")

\* C23 as stated: every invocation of the generator-verifier-reviser loop
\* records loop_completed or loop_exhausted for the run exactly once:
\* loop_completed (exhausted=false) exactly when the last verdict is pass
\* or abstain, loop_exhausted (exhausted=true) otherwise
C23_LoopEvent_AsStated ==
    [][LoopEventSetOnce /\ (LoopInvocationEnds => loopEvent' = LoopEventFor(verdict'))]_vars

\* C23 amended: every invocation of the loop that returns records
\* loop_completed or loop_exhausted exactly once, loop_completed
\* (exhausted=false) exactly when the last verdict is pass or abstain and
\* loop_exhausted (exhausted=true) otherwise; an invocation that a
\* throwing generate or revise callback ends records neither
C23_LoopEvent ==
    [][/\ LoopEventSetOnce
       /\ ReturnRecordsEvent
       /\ (LoopInvocationEnds /\ ~LoopInvocationReturns) => loopEvent' = "none"]_vars

\* the loop has returned exhausted after a revision
C23_Witness ==
    /\ loopPc = "returned"
    /\ loopEvent = "loop_exhausted"
    /\ loopResult.exhausted
    /\ reviseCalls > 0

\* the events of a run, as a set
EventsOf(run) == {taskRuns[run].events[i] : i \in DOMAIN taskRuns[run].events}

\* when the loop has returned out of budget, executeHarness goes on to
\* nothing but its needs_input return, and no executor is called
ExhaustedAsksForInput ==
    (hPc = "loop" /\ loopPc = "returned" /\ loopResult.exhausted) =>
        /\ toolPc' = toolPc /\ toolCall' = toolCall
        /\ brPc' = brPc /\ brRun' = brRun /\ brTab' = brTab
        /\ hPc' # "loop" =>
              /\ hPc' = "idle"
              /\ hResult' = [run |-> hRun.run, status |-> "needs_input", requestId |-> 0]
              /\ taskRuns'[hRun.run].status = "needs_input"
              /\ "needs_input" \in {taskRuns'[hRun.run].events[i] :
                                       i \in DOMAIN taskRuns'[hRun.run].events}

\* a run that asked for input out of budget has seen neither the publish
\* gate's approval request nor an executor
ExhaustedRunNotExecuted ==
    \A run \in DOMAIN taskRuns :
        "needs_input" \in EventsOf(run) =>
            /\ EventsOf(run) \cap {"tooling_execution", "browser_execution",
                                   "awaiting_approval", "verified"} = {}
            /\ taskRuns[run].status \in {"needs_input", "rejected"}

\* the question of a needs_input run is one of the three of
\* askTargetedQuestion, whatever the objective
QuestionAsked ==
    \A task \in HarnessTasks :
        askTargetedQuestion(task.objective) \in
            {"share the exact files/functions and acceptance criteria",
             "explicit confirmation for payment-related actions",
             "one clarifying detail"}

\* C24: when the loop limit is reached without a pass (the loop returns
\* exhausted), the run is marked needs_input with a targeted clarifying
\* question, and neither the publish gate nor the tooling or browser
\* executor is invoked for that run
C24_BudgetExhaustion ==
    /\ [](ExhaustedRunNotExecuted /\ QuestionAsked)
    /\ [][ExhaustedAsksForInput]_vars

\* a run has returned needs_input after the loop used its budget on
\* revisions
C24_Witness ==
    /\ hPc = "idle"
    /\ hResult.status = "needs_input"
    /\ hResult.run # 0
    /\ "needs_input" \in EventsOf(hResult.run)
    /\ loopEvent = "loop_exhausted"
    /\ reviseCalls > 0

\* the handler of a running file throws and the file is moved back
MovedBack(f) == files[f].loc = "processing" /\ files'[f].loc = "incoming"

\* the attempt that threw left the conversations and the internal messages
\* as they were
ThrowLeavesConversations ==
    \A f \in running :
        MovedBack(f) => conversations' = conversations /\ Len(files') = Len(files)

\* the response of a branch is in its conversation once
ResponsesOnce ==
    \A c \in DOMAIN conversations :
        \A i, j \in DOMAIN conversations[c].responses :
            conversations[c].responses[i] = conversations[c].responses[j] => i = j

\* C25: if the handler of a team-branch message throws and its file is
\* moved back to incoming/ for retry, the conversation record (responses,
\* pending, totalMessages, enqueued internal messages) is as it was before
\* the attempt, so after the retry each branch's response appears exactly
\* once in the aggregate and pending still counts the open branches
C25_FailureLeavesConversation ==
    /\ [][ThrowLeavesConversations]_vars
    /\ []ResponsesOnce

\* C26: assuming agent invocations terminate and polling ticks keep
\* firing, every file placed in incoming/ eventually leaves incoming/ and
\* processing/ for good (its response is written to outgoing/ or absorbed
\* into a conversation); no message is moved back to incoming/ and retried
\* without bound
C26_QueueLiveness ==
    \A f \in 1..(MaxExternal + MaxInternal) :
        [](f \in DOMAIN files => <>[](f \in DOMAIN files /\ files[f].loc = "gone"))

\* the tools whose registry status is blocked
BlockedTools == {name \in DOMAIN toolRegistry : toolRegistry[name] = "blocked"}

\* the users a tool was blocked for: blockTool left them a revoked row
BlockedFor(name) ==
    {permissions[id].user_id : id \in {i \in DOMAIN permissions :
        /\ permissions[i].subject = name
        /\ permissions[i].resource = "tool"
        /\ permissions[i].status = "revoked"}}

\* executeToolingTask spawns the command of this user and tool
Spawns(userId, name) ==
    /\ toolPc = "idle"
    /\ toolPc' = "running"
    /\ toolCall'.userId = userId
    /\ SanitizedTool(toolCall'.argv) = name

BlockedToolNotExecuted ==
    \A name \in BlockedTools : \A userId \in BlockedFor(name) : ~Spawns(userId, name)

ExecutorKeepsBlocked ==
    \A userId \in Users, blob \in Blobs :
        ExecuteToolingTask(userId, blob) =>
            \A name \in BlockedTools : toolRegistry'[name] = "blocked"

\* C27: after blockTool(name, user), executeToolingTask for that user and
\* tool does not execute the command until the tool is approved again, even
\* if the user held an active permission before the block; the executor
\* never changes a blocked tool's registry status to approved
C27_BlockedStaysBlocked == [][BlockedToolNotExecuted /\ ExecutorKeepsBlocked]_vars

\* the conversation is open and its totalMessages is at or above maxMessages
CapReached ==
    teamConv.state = "open" /\ teamConv.totalMessages >= teamConv.maxMessages

\* at the cap a branch response enqueues nothing and adds nothing to pending
MentionsDroppedAtCap ==
    \A agentId \in Team.agents, mentions \in TeamMentionSets :
        CapReached /\ HandleInternal(agentId, mentions) =>
            /\ branches' = [branches EXCEPT ![agentId] = @ - 1]
            /\ teamConv'.pending = teamConv.pending - 1

\* at the cap pending counts the branches enqueued and each can be handled
EnqueuedBranchesResolve ==
    CapReached =>
        /\ teamConv.pending = Waiting(branches)
        /\ \A agentId \in Team.agents :
              branches[agentId] > 0 =>
                  ENABLED (\E mentions \in TeamMentionSets : HandleInternal(agentId, mentions))

C29_MessageCapBound == teamConv.totalMessages <= teamConv.maxMessages

\* the most branch messages of a conversation: maxMessages - 1 responses
\* hand off, each to at most every teammate, and every branch enqueued
\* responds once
BranchMessageBound ==
    MAX_CONVERSATION_MESSAGES
        + (MAX_CONVERSATION_MESSAGES - 1) * (Cardinality(Team.agents) - 2)

\* C30: assuming every branch handler terminates without throwing, every
\* team conversation eventually reaches pending == 0 and is completed,
\* after a bounded number of branch messages, even when teammates keep
\* mentioning each other in a cycle
C30_ConversationTermination ==
    /\ <>(teamConv.state = "completed" /\ teamConv.pending = 0)
    /\ [](teamConv.totalMessages <= BranchMessageBound)
    /\ [](teamConv.pending = 0 => teamConv.state # "open")

C30_Witness ==
    /\ teamConv.state = "completed"
    /\ teamConv.pending = 0
    /\ teamConv.totalMessages = teamConv.maxMessages

\* the scheduler records an event for run r in this step
OutreachRecorded(r) ==
    /\ r \in DOMAIN oEvents
    /\ Len(oEvents'[r]) > Len(oEvents[r])

AtMostThreeOutreach ==
    \A r \in DOMAIN oEvents : Len(oEvents[r]) <= 3

FourHoursApart ==
    \A r \in DOMAIN oEvents : \A i \in 2..Len(oEvents[r]) :
        oEvents[r][i] - oEvents[r][i - 1] >= 4 * 60 * 60 * 1000

\* an event is recorded for a blocked run, between 10 minutes and 24 hours
\* after the update that blocked it
RecordedInWindow ==
    \A r \in OutreachRunIds :
        OutreachRecorded(r) =>
            /\ oRuns[r].status \in {"needs_input", "awaiting_approval"}
            /\ oNow - oRuns[r].updated_at >= 10 * 60 * 1000
            /\ oNow - oRuns[r].updated_at <= 24 * 60 * 60 * 1000

\* C31: for every run, at most 3 proactive_outreach events are ever
\* recorded, any two of them are at least 4 hours apart, none is recorded
\* before the run has been blocked for 10 minutes or after it is older than
\* 24 hours, and none for a run whose status is not needs_input or
\* awaiting_approval
C31_OutreachLimits ==
    /\ []AtMostThreeOutreach
    /\ []FourHoursApart
    /\ [][RecordedInWindow]_vars

\* a run with three events that a later tick finds blocked, not too old and
\* four hours after its last event
C31_Witness ==
    \E r \in DOMAIN oEvents :
        /\ Len(oEvents[r]) = 3
        /\ r \in listBlockedRunsForOutreach(BLOCKED_OUTREACH_MIN_AGE_MS)
        /\ OutreachDueUncounted(r)

\* the rows of one (channel, senderId) in the list are one row at most
OneRunPerSender ==
    \A r1, r2 \in listBlockedRunsForOutreach(BLOCKED_OUTREACH_MIN_AGE_MS) :
        oRuns[r1].sender_id = oRuns[r2].sender_id => r1 = r2

\* a row of the list is the newest blocked run of its sender
NewestBlockedRun ==
    \A r \in listBlockedRunsForOutreach(BLOCKED_OUTREACH_MIN_AGE_MS) :
        \A other \in DOMAIN oRuns :
            /\ oRuns[other].sender_id = oRuns[r].sender_id
            /\ oRuns[other].status \in BlockedStatuses
            => oRuns[other].updated_at <= oRuns[r].updated_at

\* a tick records an event, and queues a reminder, for one run of a sender
OneReminderPerSender ==
    \A r1, r2 \in OutreachRunIds :
        /\ OutreachRecorded(r1)
        /\ OutreachRecorded(r2)
        /\ oRuns[r1].sender_id = oRuns[r2].sender_id
        => r1 = r2

\* C32: listBlockedRunsForOutreach returns at most one run per (channel,
\* senderId), namely the newest blocked one, so one scheduler tick never
\* queues two reminders for the same user on the same channel, including
\* when that user's runs were created by concurrently running agent branches
C32_NewestBlockedOnly ==
    /\ [](OneRunPerSender /\ NewestBlockedRun)
    /\ [][OneReminderPerSender]_vars

\* the trace of the run the executor is in, and of the run it just ended
RunTrace == IF brPc = "idle" THEN brTab.trace ELSE brRun.trace

AtMostThreeAttempts ==
    /\ brRun.attempt <= 3
    /\ \A j \in DOMAIN RunTrace : RunTrace[j].attempt <= 3

\* a second or third attempt of a step follows a failure of the attempt
\* before it
RetriedAfterException ==
    \A j \in DOMAIN RunTrace :
        RunTrace[j].attempt > 1 =>
            \E k \in 1..(j - 1) :
                /\ RunTrace[k].actionId = RunTrace[j].actionId
                /\ RunTrace[k].attempt = RunTrace[j].attempt - 1
                /\ RunTrace[k].outcome = "failure"

\* after a checkpoint entry nothing more is attempted
CheckpointIsLast ==
    \A j \in DOMAIN RunTrace :
        RunTrace[j].outcome = "checkpoint" => j = Len(RunTrace)

\* the executor leaves the retry loop of a step in this step
LeavesAttempt == brPc = "attempt" /\ brPc' # "attempt"

\* the attempt that detects a checkpoint returns needs_input
CheckpointNeedsInput ==
    /\ LeavesAttempt
    /\ brRun.mode = "task"
    /\ \E j \in DOMAIN brTab'.trace :
          j > Len(brRun.trace) /\ brTab'.trace[j].outcome = "checkpoint"
    => brResult'.status = "needs_input" /\ brPc' = "idle"

\* the third failure of a step returns failed
ThirdFailureFails ==
    \A landed \in {Url.Shop, Url.Cvv} :
        BrowserAttempt("failure", landed) /\ brRun.attempt = 3
            => brResult'.status = "failed" /\ brPc' = "idle"

\* the entries are in plan order, and a step has entries only when the step
\* before it has succeeded
StepsInPlanOrder ==
    \A j \in DOMAIN RunTrace :
        /\ j > 1 => RunTrace[j - 1].actionId <= RunTrace[j].actionId
        /\ RunTrace[j].actionId > 1 =>
              \E k \in 1..(j - 1) :
                  /\ RunTrace[k].actionId = RunTrace[j].actionId - 1
                  /\ RunTrace[k].outcome = "success"

\* C33: each plan step is attempted at most 3 times and is retried only
\* after an exception; a detected human checkpoint ends the run with
\* needs_input without any further attempt or step; a step that fails 3
\* times ends the run as failed; steps run in plan order and step i+1 is
\* attempted only after step i succeeded
C33_BrowserStepRetry ==
    /\ [](AtMostThreeAttempts /\ RetriedAfterException /\ CheckpointIsLast
             /\ StepsInPlanOrder)
    /\ [][CheckpointNeedsInput /\ ThirdFailureFails]_vars

\* the status of the tab row of a run changes in this step
TabMoves(from, to) ==
    brPc # "idle" /\ brTab.status = from /\ brTab'.status = to

\* a call creates the row of its run active
TabCreatedActive ==
    \A plan \in BrowserPlans, provider \in BrowserProviders,
       session \in {"ok", "fallback", "down"} :
        ExecuteBrowserTask("u1", plan, provider, session) /\ brPc' # "idle"
            => brTab'.status = "active"

TabTransitions ==
    brPc # "idle" /\ brTab'.status # brTab.status =>
        TabMoves("active", "error") \/ TabMoves("active", "released")

CompletedLeavesReleased ==
    /\ brRun.mode = "task"
    /\ brResult.status # "completed"
    /\ brResult'.status = "completed"
    => brTab'.status = "released"

\* C34: a browser tab row is created active and its status only ever moves
\* active to error or active to released; released and error are final (a
\* released tab is never later marked error), and a run that returns
\* completed leaves its tab released
C34_TabTransitions ==
    [][TabCreatedActive /\ TabTransitions /\ CompletedLeavesReleased]_vars

\* the lines of the output that carry an agent_message text, and those that
\* carry an error message
AgentLines == {j \in DOMAIN codexOutput : trim(AgentText(codexOutput[j])) # <<>>}

ErrorLines == {j \in DOMAIN codexOutput : ErrorText(codexOutput[j]) # <<>>}

\* a string that is returned is the text of the last agent_message
LastAgentMessageWins ==
    codexResult.status = "returned" =>
        /\ AgentLines # {}
        /\ \E j \in AgentLines :
              /\ \A k \in AgentLines : k <= j
              /\ codexResult.text = trim(AgentText(codexOutput[j]))

\* an error message that is the last message of the stream fails the call
FinalErrorFails ==
    /\ codexResult # NoCodexResult
    /\ ErrorLines # {}
    /\ \A j \in AgentLines : \E k \in ErrorLines : k > j
    => codexResult.status = "thrown"

\* C35: over any sequence of framed JSON messages, the result is the text of
\* the last agent_message, and any final error message causes the
\* invocation to fail, including when agent_message text was received
\* earlier in the stream
C35_CodexStream == LastAgentMessageWins /\ FinalErrorFails


\* the reply is an outage of the verifier: the call threw, or its text holds
\* no JSON object
VerifierOutage(reply) ==
    \/ reply.throws
    \/ reply.form = "prose"
    \/ reply.body.kind # "object"

OutagePasses ==
    (verdict # "none" /\ vfCalled /\ VerifierOutage(vfReply))
        => verdict = "pass"

OutageNeverNeedsInput ==
    (LoopNeedsInput /\ vfCalled) => ~VerifierOutage(vfReply)

FastPathOnly ==
    verdict # "none" =>
        /\ FastPath(vfCandidate) => (~vfCalled /\ verdict = "critical_fail")
        /\ ~vfCalled => FastPath(vfCandidate)

\* C36: a verifier call that throws or returns unparsable output gives the
\* verdict pass, so the loop never returns exhausted with a failing verdict
\* (the orchestrator's needs_input) after an outage; critical_fail without a
\* verifier call comes from the fast path only (a candidate shorter than 8
\* characters after trimming, or the error placeholder), and the fast path
\* never calls the verifier
C36_VerifierFailOpen == OutagePasses /\ OutageNeverNeedsInput /\ FastPathOnly

C36_Witness ==
    /\ loopPc = "returned"
    /\ verifyCalls > 1
    /\ vfCalled
    /\ VerifierOutage(vfReply)
    /\ verdict = "pass"
    /\ ~loopResult.exhausted


\* a step revokes the permission row id: permission revoke, or a /deny of
\* the row's owner
Revokes(id) ==
    \/ PermissionRevoke(id)
    \/ \E senderId \in Users : ResolvePermissionRequest(senderId, id, FALSE)

\* executeToolingTask of the user for the tool takes the needs_approval branch
ReturnsNeedsApproval(userId, toolName) ==
    ~hasActivePermission(userId, toolName, "execute")

\* C37: after a permission of (user, tool, execute) is revoked, by permission
\* revoke or by /deny, executeToolingTask of that user for that tool returns
\* needs_approval, whatever grants, approvals and requests came before
C37_RevocationEffective ==
    [][\A id \in DOMAIN permissions :
          Revokes(id) =>
              ReturnsNeedsApproval(permissions[id].user_id,
                                   permissions[id].subject)']_vars


\* the step is an approve or deny of the request's owner for the request
DecidedByOwner(id) ==
    /\ \E senderId \in Users, approve \in BOOLEAN :
          MessageCreate(senderId, "browser", id, approve)
    /\ approvalCmd'.senderId = brApprovals[id].user_id

\* C38: a browser approval request changes status only from pending to
\* approved or denied, only by an approve or deny of the user it belongs
\* to, and a decided request is never changed by a later approve or deny
C38_ApprovalFinalAndOwned ==
    [][\A id \in DOMAIN brApprovals :
          brApprovals'[id].status # brApprovals[id].status =>
              /\ brApprovals[id].status = "pending"
              /\ brApprovals'[id].status \in {"approved", "denied"}
              /\ DecidedByOwner(id)]_vars


RECURSIVE SumOfDeltas(_, _)
\* the sum of the deltas of the metric-event rows of a metric name
SumOfDeltas(rows, metricName) ==
    IF rows = <<>> THEN 0
    ELSE (IF Head(rows).metric_name = metricName THEN Head(rows).delta ELSE 0)
            + SumOfDeltas(Tail(rows), metricName)

NoIncrementRunning ==
    \A p \in MetricProcesses : metricCalls[p].pc = "idle"

\* C39: whenever no incrementMetric call is in progress, the stored value
\* of every metric equals the sum of the deltas of its metric-event rows,
\* under any interleaving of the calls of the processes sharing the database
C39_MetricConsistency ==
    NoIncrementRunning =>
        \A metricName \in MetricNames :
            metrics[metricName] = SumOfDeltas(metricEvents, metricName)


\* C40: the key of the chain a file is appended to, which is the agent id
\* peekAgentId returns for it, equals the agent id processMessage resolves
\* for the file, with the fallback to default, the fallback to the first
\* configured agent and the error of several mentions
C40_ChainKeyAgreesWithRouting ==
    \A key \in ChainKeys : \A i \in DOMAIN chains[key] :
        /\ key = peekAgentId(files[chains[key][i]])
        /\ key = ResolvedAgentId(chains[key][i])

====
